---- MODULE Spec2Model ----
(***************************************************************************)
(* A model of the FHIR bundle submission service: the PUT /Bundle handler  *)
(* put__bundle (bundle_service/main.py), its preflight and entry           *)
(* validation, the status resolution, and the commit step process          *)
(* (bundle_service/processing/process_bundle.py) with its collaborators.   *)
(*                                                                         *)
(* Python values are modelled as follows.  None is the empty tuple and a   *)
(* present value v is <<v>>.  A text is a tuple of tokens, so that         *)
(* str.split, f-strings and str(list) are computed on it.  A dict is a     *)
(* record whose fields are optional values.                                *)
(***************************************************************************)
EXTENDS Integers, Sequences, FiniteSets, TLC

None == <<>>
Some(v) == <<v>>
IsNone(o) == Len(o) = 0
Val(o) == o[1]

(* ----------------------------- bounds -------------------------------- *)

\* longest entry list of a submitted bundle
MaxEntries == 2
\* longest Outcome handed to the status resolver on its own
MaxIssues == 2
\* the clock values time.time() may return are 0..MaxTime
MaxTime == 3

(* ------------------------ program constants -------------------------- *)

MAX_REQUEST_SIZE == 50 * 1024 * 1024

PROJECT_ID_SYSTEM == "https://aced-idp.org/project_id"

valid_resource_types ==
    { "ResearchStudy", "Patient", "ResearchSubject", "Substance", "Specimen",
      "Observation", "Condition", "Medication", "MedicationAdministration",
      "DocumentReference", "Task", "FamilyMemberHistory", "BodyStructure",
      "Organization" }

\* the sample ids on which UUID_PATTERN.match succeeds
UuidShaped ==
    { "b7793c1a-690e-5b7b-8b5b-867555936d06",
      "cf014752-28f2-5838-9b72-29afe11392a7" }

UUID_PATTERN_match(s) == s \in UuidShaped

(* --------------------------- text helpers ---------------------------- *)

\* str.split(sep) on a text: the list of the parts between separators
RECURSIVE Split(_, _)
Split(s, sep) ==
    IF s = <<>> THEN << <<>> >>
    ELSE LET rest == Split(Tail(s), sep)
         IN  IF Head(s) = sep
             THEN << <<>> >> \o rest
             ELSE << <<Head(s)>> \o Head(rest) >> \o Tail(rest)

\* int(text) on a text of decimal digits
RECURSIVE ParseInt(_)
ParseInt(ds) ==
    IF ds = <<>> THEN 0
    ELSE 10 * ParseInt(SubSeq(ds, 1, Len(ds) - 1)) + ds[Len(ds)]

\* str(list of str): "['a', 'b']"
RECURSIVE StrItems(_)
StrItems(xs) ==
    IF xs = <<>> THEN <<>>
    ELSE IF Len(xs) = 1 THEN <<"'">> \o Head(xs) \o <<"'">>
    ELSE <<"'">> \o Head(xs) \o <<"'", ", ">> \o StrItems(Tail(xs))

StrList(xs) == <<"[">> \o StrItems(xs) \o <<"]">>

\* text a occurs in text b
Contains(b, a) ==
    \E i \in 0..(Len(b) - Len(a)) : SubSeq(b, i + 1, i + Len(a)) = a

(* ------------------------------ issues ------------------------------- *)

OperationOutcomeIssue(sev, code, diag) ==
    [severity |-> sev, code |-> code, diagnostics |-> diag]

(* ----------------------- the permission check ------------------------ *)

\* an access token as decode_token sees it
GarbledToken == [decodable |-> FALSE, iat |-> 0, exp |-> 0]
SignedToken == [decodable |-> TRUE, iat |-> 1, exp |-> 2]
Tokens == { GarbledToken, SignedToken }

Times == 0..MaxTime

ProgramPath(program) == <<"/programs/">> \o program
ProjectsPath(program) == <<"/programs/">> \o program \o <<"/projects">>
ProjectPath(program, project) ==
    <<"/programs/">> \o program \o <<"/projects/">> \o project

CreateGrant == [method |-> "create", service |-> "*"]
ReadGrant == [method |-> "read", service |-> "*"]

\* what /user/user answers: the resources, the authz keys and their grants
UserOf(res, keys, grants) == [resources |-> res, authz |-> keys, grants |-> grants]

Users ==
    LET p1 == ProgramPath(<<"ohsu">>)
        p2 == ProjectsPath(<<"ohsu">>)
        p3 == ProjectPath(<<"ohsu">>, <<"test">>)
    IN  { UserOf({p1, p2}, {p3}, {<<p3, CreateGrant>>}),
          UserOf({}, {}, {}),
          UserOf({p1}, {p3}, {<<p3, CreateGrant>>}),
          UserOf({p1, p2}, {}, {}),
          UserOf({p1, p2}, {p3}, {<<p3, ReadGrant>>}) }

\* a result of a call: the value returned, or the exception raised, and the
\* collaborator calls made on the way
Returned(v, cs) == [raised |-> None, value |-> v, calls |-> cs]
Raised(e, cs) == [raised |-> Some(e), value |-> None, calls |-> cs]

\* the expiry of the token is not looked at
_is_valid_token_NoExpiry(access_token, now) ==
    IF ~access_token.decodable
    THEN [valid |-> FALSE, msg |-> <<"Not enough segments">>]
    ELSE [valid |-> TRUE, msg |-> None]

_is_valid_token(access_token, now) ==
    IF ~access_token.decodable
    THEN [valid |-> FALSE, msg |-> <<"Not enough segments">>]
    ELSE IF ~(now >= access_token.iat /\ now <= access_token.exp)
    THEN [valid |-> FALSE, msg |-> <<"Token has expired">>]
    ELSE [valid |-> TRUE, msg |-> None]

CanCreateResult(ok, msg, code) == [can_create |-> ok, msg |-> msg, error_code |-> code]

_can_create(access_token, project_id, now, user) ==
    LET tok == _is_valid_token(access_token, now)
        parts == Split(project_id, "-")
    IN  IF ~tok.valid
        THEN Returned(CanCreateResult(FALSE, tok.msg, Some(401)), <<>>)
        ELSE IF Len(parts) # 2
        THEN Raised("ValueError", <<"user_user">>)
        ELSE LET program == parts[1]
                 project == parts[2]
                 service == ProjectPath(program, project)
                 r ==
                   IF ProgramPath(program) \notin user.resources
                   THEN CanCreateResult(FALSE,
                            ProgramPath(program) \o <<" not found in user resources">>,
                            Some(403))
                   ELSE IF ProjectsPath(program) \notin user.resources
                   THEN CanCreateResult(FALSE,
                            ProjectsPath(program) \o <<" not found in user resources">>,
                            Some(403))
                   ELSE IF service \notin user.authz
                   THEN CanCreateResult(FALSE,
                            service \o <<" not found in user authz">>, Some(403))
                   ELSE IF <<service, CreateGrant>> \notin user.grants
                   THEN CanCreateResult(FALSE,
                            <<"create not found in user authz for ">> \o service,
                            Some(403))
                   ELSE CanCreateResult(TRUE,
                            <<"HAS SERVICE create on resource ">> \o service, None)
             IN  Returned(r, <<"user_user">>)

(* ------------------------- the request inputs ------------------------ *)

Digits(n) == IF n = 52428800 THEN <<5, 2, 4, 2, 8, 8, 0, 0>>
             ELSE IF n = 52428801 THEN <<5, 2, 4, 2, 8, 8, 0, 1>>
             ELSE <<1, 0, 0>>

\* the Content-Length header: absent, small, exactly 50 MiB, one byte more
ContentLengths == { None, Some(Digits(100)), Some(Digits(52428800)),
                    Some(Digits(52428801)) }

\* the Authorization header: absent or a token
Authorizations == { None } \cup { Some(t) : t \in Tokens }

ProjectIds == { <<"ohsu", "-", "test">>, <<"ohsu">>, <<"a", "-", "b", "-", "c">> }

IdentifierOf(sys, v) == [system |-> sys, value |-> v]

\* body["identifier"]: absent, {}, a foreign system, the project-id system
\* without a value, the project-id system with a value
Identifiers ==
    { None, Some(IdentifierOf(None, None)),
      Some(IdentifierOf(Some("https://foo.bar"), Some(<<"foo">>))),
      Some(IdentifierOf(Some(PROJECT_ID_SYSTEM), None)) }
    \cup { Some(IdentifierOf(Some(PROJECT_ID_SYSTEM), Some(p))) : p \in ProjectIds }

\* body["entry"] as validate_bundle sees it: the key is absent (or null), the
\* value is [], the value is another empty container, or a non-empty list
EntryShapes == { "absent", "empty_list", "empty_other", "list" }

BodyOf(rt, ty, ident, shape) ==
    [resourceType |-> rt, type |-> ty, identifier |-> ident, entry |-> shape]

\* the JSON body {}
EmptyBody == BodyOf(None, None, None, "absent")

\* the parsed JSON body: null, or a dict with any of the four keys
Bodies ==
    { None } \cup
    { Some(BodyOf(rt, ty, ident, shape)) :
        rt \in { None, Some("Bundle"), Some("Foo") },
        ty \in { None, Some("transaction"), Some("batch") },
        ident \in Identifiers,
        shape \in EntryShapes }

(* ----------------------------- preflight ----------------------------- *)

Fatal(code, diag) == OperationOutcomeIssue("fatal", code, diag)

\* an optional text as an f-string prints it
Fmt(o) == IF IsNone(o) THEN "None" ELSE Val(o)

SizeIssues(content_length) ==
    IF ~IsNone(content_length) /\ ParseInt(Val(content_length)) > MAX_REQUEST_SIZE
    THEN << Fatal("required", <<"Bundle body greater than 50 MB">>) >>
    ELSE <<>>

BodyIssues(body) ==
    IF IsNone(body) \/ body = Some(EmptyBody)
    THEN << Fatal("required", <<"Bundle missing body">>) >>
    ELSE <<>>

AuthIssues(authorization) ==
    IF IsNone(authorization)
    THEN << Fatal("security", <<"Missing Authorization header">>) >>
    ELSE <<>>

ResourceTypeIssues(b) ==
    IF b.resourceType # Some("Bundle")
    THEN << Fatal("required", <<"Body must be a FHIR Bundle, not ", Fmt(b.resourceType)>>) >>
    ELSE <<>>

\* (the source prints transaction between backquotes)
TypeIssues(b) ==
    IF b.type # Some("transaction")
    THEN << Fatal("required", <<"Bundle must be of type transaction, not ", Fmt(b.type)>>) >>
    ELSE <<>>

IdentifierIssues(b) ==
    IF IsNone(b.identifier)
    THEN << Fatal("required", <<"Bundle missing identifier">>) >>
    ELSE <<>>

\* project_id as validate_bundle derives it from the identifier
PreflightProjectId(b) ==
    IF ~IsNone(b.identifier)
       /\ Val(b.identifier) # IdentifierOf(None, None)
       /\ Val(b.identifier).system = Some(PROJECT_ID_SYSTEM)
    THEN Val(b.identifier).value
    ELSE None

ProjectIdIssues(project_id) ==
    LET missing ==
          IF IsNone(project_id)
          THEN << Fatal("required", <<"Bundle missing identifier https://aced-idp.org/project_id">>) >>
          ELSE <<>>
        malformed ==
          IF IsNone(project_id) THEN <<>>
          ELSE IF Len(Split(Val(project_id), "-")) # 2
          THEN << Fatal("required", <<"Bundle identifier project id not in the from 'str-str'">>) >>
          ELSE <<>>
    IN  missing \o malformed

EntryIssues(b) ==
    IF b.entry \in { "absent", "empty_list" }
    THEN << Fatal("required", <<"Bundle missing entry">>) >>
    ELSE <<>>

\* every refusal is labelled forbidden, whatever its failure kind
PermissionIssues_AlwaysForbidden(r) ==
    IF ~r.can_create THEN << Fatal("forbidden", r.msg) >> ELSE <<>>

PermissionIssues(r) ==
    IF ~r.can_create
    THEN << Fatal(IF r.error_code = Some(401) THEN "security" ELSE "forbidden", r.msg) >>
    ELSE <<>>

SuccessIssue == OperationOutcomeIssue("success", "success", <<"non fatal entry">>)

\* the success issue is appended whatever the Outcome holds
WithSuccess_Always(issues) == Append(issues, SuccessIssue)

\* the success issue is appended to an Outcome that is still empty
WithSuccess(issues) == IF Len(issues) = 0 THEN <<SuccessIssue>> ELSE issues

\* validate_bundle: the Outcome, or the exception that escapes it
validate_bundle(body, authorization, content_length, now, user) ==
    IF IsNone(body)
    THEN Raised("AttributeError", <<>>)
    ELSE
      LET b == Val(body)
          project_id == PreflightProjectId(b)
          checks == SizeIssues(content_length) \o BodyIssues(body)
                    \o AuthIssues(authorization) \o ResourceTypeIssues(b)
                    \o TypeIssues(b) \o IdentifierIssues(b)
                    \o ProjectIdIssues(project_id) \o EntryIssues(b)
          asked == ~IsNone(authorization) /\ ~IsNone(project_id)
          perm == _can_create(Val(authorization), Val(project_id), now, user)
      IN  IF ~asked
          THEN Returned(WithSuccess(checks), <<>>)
          ELSE IF ~IsNone(perm.raised)
          THEN Raised(Val(perm.raised), <<"_can_create">> \o perm.calls)
          ELSE Returned(WithSuccess(checks \o PermissionIssues(perm.value)),
                        <<"_can_create">> \o perm.calls)

(* ------------------------- status resolution ------------------------- *)

HasCode(issues, code) == \E i \in 1..Len(issues) : issues[i].code = code
HasSeverity(issues, sev) == \E i \in 1..Len(issues) : issues[i].severity = sev

\* a slip in the severity literal: "error" is tested instead of "fatal"
AnyFatal_SeverityError(issues) == HasSeverity(issues, "error")

\* any([_ for _ in outcome.issue if _.severity == "fatal"])
AnyFatal(issues) == HasSeverity(issues, "fatal")

\* the status the fatal branch of put__bundle (and _any_fatal_issues) computes
FatalStatus(issues) ==
    LET s1 == 422
        s2 == IF HasCode(issues, "security") THEN 401 ELSE s1
        s3 == IF HasCode(issues, "forbidden") THEN 403 ELSE s2
    IN  s3

\* _any_fatal_issues: (flag, status_code), the status None without a fatal issue
_any_fatal_issues(issues) ==
    IF AnyFatal(issues)
    THEN [fatal |-> TRUE, status_code |-> Some(FatalStatus(issues))]
    ELSE [fatal |-> FALSE, status_code |-> None]

(* ------------------------- entry validation -------------------------- *)

RequestOf(method, url) == [method |-> method, url |-> url]
ResourceOf(rt, id, ident) == [resource_type |-> rt, id |-> id, identifier |-> ident]

\* an entry of the request: whether BundleEntry(**entry_dict) accepts it,
\* its request and its resource (None when the entry carries none)
EntryOf(parses, request, resource) ==
    [parses |-> parses, request |-> request, resource |-> resource]

Uuid1 == "b7793c1a-690e-5b7b-8b5b-867555936d06"
Uuid2 == "cf014752-28f2-5838-9b72-29afe11392a7"

PatientOk == ResourceOf("Patient", Some(Uuid1), TRUE)

\* the entries a bundle is built from
EntryPool ==
    { EntryOf(TRUE, RequestOf("PUT", <<"Patient">>), Some(PatientOk)),
      EntryOf(TRUE, RequestOf("PUT", <<"Specimen">>),
              Some(ResourceOf("Specimen", Some(Uuid2), TRUE))),
      EntryOf(FALSE, RequestOf("PUT", <<"Patient">>), Some(PatientOk)),
      EntryOf(TRUE, RequestOf("POST", <<"Patient">>), Some(PatientOk)),
      EntryOf(TRUE, RequestOf("PUT", <<"Claim">>),
              Some(ResourceOf("Claim", Some(Uuid1), TRUE))),
      EntryOf(TRUE, RequestOf("PUT", <<"Patient">>),
              Some(ResourceOf("Patient", None, TRUE))),
      EntryOf(TRUE, RequestOf("PUT", <<"Patient">>),
              Some(ResourceOf("Patient", Some("1"), TRUE))),
      EntryOf(TRUE, RequestOf("PUT", <<"Patient">>),
              Some(ResourceOf("Patient", Some(Uuid1), FALSE))),
      EntryOf(TRUE, RequestOf("DELETE", <<"Patient", "/", Uuid1>>), None),
      EntryOf(TRUE, RequestOf("DELETE", <<"Patient", "/", Uuid1>>), Some(PatientOk)),
      EntryOf(TRUE, RequestOf("DELETE", <<"Patient">>), Some(PatientOk)) }

ErrorIssue(code, diag) == OperationOutcomeIssue("error", code, diag)

\* validate_entry of main.py: None, an Issue, or the exception it raises
validate_entry(entry) ==
    IF ~entry.parses
    THEN Returned(Some(ErrorIssue("structure",
             <<"Validation error on ", "None", " with id: ", "None">>)), <<>>)
    ELSE IF entry.request.method \notin { "PUT", "DELETE" }
    THEN Returned(Some(ErrorIssue("invariant",
             <<"Invalid entry.method ", entry.request.method,
               " for entry ", "None", ", must be PUT or DELETE">>)), <<>>)
    ELSE IF IsNone(entry.resource)
    THEN Raised("AttributeError", <<>>)
    ELSE LET resource == Val(entry.resource)
         IN  IF IsNone(resource.id)
             THEN Returned(Some(ErrorIssue("invariant", <<"Resource missing id">>)), <<>>)
             ELSE IF ~UUID_PATTERN_match(Val(resource.id))
             THEN Returned(Some(ErrorIssue("invariant",
                      <<"Resource id ", Val(resource.id), " is not a UUID">>)), <<>>)
             ELSE IF resource.resource_type \notin valid_resource_types
             THEN Returned(Some(ErrorIssue("invariant",
                      <<"Unsupported resource ", resource.resource_type>>)), <<>>)
             ELSE IF ~resource.identifier
             THEN Returned(Some(ErrorIssue("required",
                      <<"Missing identifier for ", resource.resource_type,
                        " with ", Val(resource.id)>>)), <<>>)
             ELSE Returned(None, <<>>)

\* VALID_RESOURCE_TYPES of bundle_service/__init__.py
VALID_RESOURCE_TYPES ==
    { "ResearchStudy", "Patient", "ResearchSubject", "Substance", "Specimen",
      "Observation", "Condition", "Medication", "MedicationAdministration",
      "DocumentReference", "Task", "FamilyMemberHistory", "BodyStructure",
      "Organization" }

\* a segment of a url is one name of the allow-list
SegmentIn(segment, names) == Len(segment) = 1 /\ segment[1] \in names

\* UUID_PATTERN.match on a segment of a url
SegmentIsUuid(segment) == Len(segment) = 1 /\ UUID_PATTERN_match(segment[1])

\* validate_entry of bundle_validate.py, which put__bundle does not call:
\* None, an Issue, or the exception it raises (the source prints the / of
\* the first url message between quotes)
bundle_validate_validate_entry(entry) ==
    IF ~entry.parses
    THEN Returned(Some(ErrorIssue("structure",
             <<"Validation error on ", "None", " with id: ", "None">>)), <<>>)
    ELSE IF entry.request.method \notin { "PUT", "DELETE" }
    THEN Returned(Some(ErrorIssue("invariant",
             <<"Invalid entry.method ", entry.request.method,
               " for entry ", "None", ", must be PUT or DELETE">>)), <<>>)
    ELSE IF entry.request.method = "PUT"
    THEN IF IsNone(entry.resource)
         THEN Raised("AttributeError", <<>>)
         ELSE LET resource == Val(entry.resource)
              IN  IF resource.resource_type \notin VALID_RESOURCE_TYPES
                  THEN Returned(Some(ErrorIssue("invariant",
                           <<"Unsupported resource ", resource.resource_type>>)), <<>>)
                  ELSE IF IsNone(resource.id)
                  THEN Returned(Some(ErrorIssue("invariant",
                           <<"Resource missing id">>)), <<>>)
                  ELSE IF ~UUID_PATTERN_match(Val(resource.id))
                  THEN Returned(Some(ErrorIssue("invariant",
                           <<"Resource id ", Val(resource.id), " is not a UUID">>)), <<>>)
                  ELSE IF ~resource.identifier
                  THEN Returned(Some(ErrorIssue("required",
                           <<"Missing identifier for ", resource.resource_type,
                             " with ", Val(resource.id)>>)), <<>>)
                  ELSE Returned(None, <<>>)
    ELSE LET request_url == entry.request.url
             ref_split == Split(request_url, "/")
         IN  IF Len(ref_split) # 2
             THEN Returned(Some(ErrorIssue("required",
                      <<"entry.request.url ">> \o request_url
                      \o <<" does not contain exactly 1 / character">>)), <<>>)
             ELSE IF ~SegmentIn(ref_split[1], VALID_RESOURCE_TYPES)
             THEN Returned(Some(ErrorIssue("required",
                      <<"entry.request.url ">> \o ref_split[1] \o <<" in ">>
                      \o request_url \o <<" is an unsupported resource">>)), <<>>)
             ELSE IF ~SegmentIsUuid(ref_split[2])
             THEN Returned(Some(ErrorIssue("required",
                      <<"entry.request.url ">> \o ref_split[2]
                      \o <<" is not a UUID">>)), <<>>)
             ELSE Returned(None, <<>>)

\* the outcome block is attached on the wrong branch
ResponseEntry_OutcomeOnSuccess(response_issue) ==
    IF IsNone(response_issue)
    THEN [status |-> "200", outcome |-> Some(<<>>)]
    ELSE [status |-> "422", outcome |-> None]

\* the bundle-level success issue is folded into the Outcome of the entry
ResponseEntry_WithBundleIssue(response_issue) ==
    IF IsNone(response_issue)
    THEN [status |-> "200", outcome |-> None]
    ELSE [status |-> "422", outcome |-> Some(<<Val(response_issue), SuccessIssue>>)]

\* the response entry built for an entry whose validation gave response_issue
ResponseEntry(response_issue) ==
    IF IsNone(response_issue)
    THEN [status |-> "200", outcome |-> None]
    ELSE [status |-> "422", outcome |-> Some(<<Val(response_issue)>>)]

\* the loop of validate_bundle_entries over request_entries, from the
\* accumulated response_entries and valid_fhir_rows
RECURSIVE EntriesLoop(_, _, _)
EntriesLoop(request_entries, response_entries, valid_fhir_rows) ==
    IF request_entries = <<>>
    THEN Returned([response_entries |-> response_entries,
                   valid_fhir_rows |-> valid_fhir_rows], <<>>)
    ELSE LET entry_dict == Head(request_entries)
             v == validate_entry(entry_dict)
         IN  IF ~IsNone(v.raised)
             THEN Raised(Val(v.raised), <<>>)
             ELSE EntriesLoop(Tail(request_entries),
                     Append(response_entries, ResponseEntry(v.value)),
                     IF IsNone(v.value)
                     THEN Append(valid_fhir_rows, entry_dict)
                     ELSE valid_fhir_rows)

\* body.get("identifier", {}).get("value", None)
BodyProjectId(b) ==
    IF IsNone(b.identifier) THEN None ELSE Val(b.identifier).value

\* every entry is queued for commit, whatever its validation gave
validate_bundle_entries_AllRows(b, request_entries) ==
    LET r == EntriesLoop(request_entries, <<>>, <<>>)
    IN  IF ~IsNone(r.raised) THEN r
        ELSE Returned([response_entries |-> r.value.response_entries,
                       valid_fhir_rows |-> request_entries,
                       project_id |-> BodyProjectId(b)], <<>>)

validate_bundle_entries(b, request_entries) ==
    LET r == EntriesLoop(request_entries, <<>>, <<>>)
    IN  IF ~IsNone(r.raised) THEN r
        ELSE Returned([response_entries |-> r.value.response_entries,
                       valid_fhir_rows |-> r.value.valid_fhir_rows,
                       project_id |-> BodyProjectId(b)], <<>>)

\* the all_invalid refinement is left out
EntryStatus_NoAllInvalid(response_entries) ==
    IF \E i \in 1..Len(response_entries) : response_entries[i].status # "200"
    THEN 202
    ELSE 201

\* the status put__bundle derives from the response entries
EntryStatus(response_entries) ==
    LET n == Len(response_entries)
        all_invalid == \A i \in 1..n : response_entries[i].status # "200"
        any_invalid_entries == \E i \in 1..n : response_entries[i].status # "200"
    IN  IF any_invalid_entries
        THEN (IF all_invalid THEN 422 ELSE 202)
        ELSE 201

\* only the first error is reported
CommitIssues_FirstOnly(issues, errors) ==
    IF Len(errors) > 0
    THEN Append(issues, OperationOutcomeIssue("fatal", "exception",
                                              StrList(<<errors[1]>>)))
    ELSE issues

\* the bundle-level issues and the status after process returned errors
CommitIssues(issues, errors) ==
    IF Len(errors) > 0
    THEN Append(issues, OperationOutcomeIssue("fatal", "exception", StrList(errors)))
    ELSE issues

\* a commit error escalates a success code only
CommitStatus_KeepRejected(status, errors) ==
    IF Len(errors) > 0 /\ status \in { 201, 202 } THEN 500 ELSE status

\* a commit error leaves an accepted bundle accepted
CommitStatus_KeepAccepted(status, errors) ==
    IF Len(errors) > 0 /\ status # 202 THEN 500 ELSE status

CommitStatus(status, errors) == IF Len(errors) > 0 THEN 500 ELSE status

\* the Location is set whatever the status
LocationHeader_Always(status, id) == Some(<<"https://aced-idp.org/Bundle/", id>>)

\* the Location header put__bundle sets
LocationHeader(status, id) ==
    IF status \in { 201, 202 }
    THEN Some(<<"https://aced-idp.org/Bundle/", id>>)
    ELSE None

(* ------------------------------ process ------------------------------ *)

FileName(resource_type) == <<resource_type, ".ndjson">>

FileIndex(temp_files, file_name) ==
    IF \E i \in 1..Len(temp_files) : temp_files[i].name = file_name
    THEN CHOOSE i \in 1..Len(temp_files) : temp_files[i].name = file_name
    ELSE 0

\* temp_files[file_name].write(line), opening the file on first use
WriteLine(temp_files, file_name, line) ==
    LET i == FileIndex(temp_files, file_name)
    IN  IF i = 0
        THEN Append(temp_files, [name |-> file_name, lines |-> <<line>>, open |-> TRUE])
        ELSE [temp_files EXCEPT ![i].lines = Append(@, line)]

\* the staging loop of process over rows
RECURSIVE StageRows(_, _, _, _)
StageRows(rows, temp_files, vertices, files_written) ==
    IF rows = <<>>
    THEN Returned([temp_files |-> temp_files, vertices |-> vertices,
                   files_written |-> files_written], <<>>)
    ELSE LET row == Head(rows)
         IN  IF row.request.method = "PUT"
             THEN StageRows(Tail(rows),
                     WriteLine(temp_files, FileName(Val(row.resource).resource_type),
                               Val(row.resource)),
                     vertices, TRUE)
             ELSE IF row.request.method = "DELETE"
             THEN LET parts == Split(row.request.url, "/")
                  IN  IF Len(parts) < 2
                      THEN Raised("IndexError", <<>>)
                      ELSE StageRows(Tail(rows), temp_files,
                                     Append(vertices, parts[2]), files_written)
             ELSE StageRows(Tail(rows), temp_files, vertices, files_written)

\* the staging files are left open
CloseAll_LeftOpen(temp_files) == temp_files

CloseAll(temp_files) ==
    [i \in 1..Len(temp_files) |-> [temp_files[i] EXCEPT !.open = FALSE]]

\* what a graph-store call answers: a status with a message, or it throws
GraphAnswers == { "200", "500", "throws" }

\* what a call inside the index rebuild does
IndexAnswers == { "ok", "throws" }

\* the index types of the rebuild, in the order of index_generator_dict
IndexTypes == <<"researchsubject", "specimen", "file">>

\* the except clause swallows the exception
ExceptEntries_Swallowed(what) == <<>>

\* the two entries the except clause appends: the traceback and str(e)
ExceptEntries(what) ==
    << <<"Traceback (most recent call last): ", what, " failed">>,
       <<what, " failed">> >>

(* ------------------------------- state ------------------------------- *)

VARIABLES
    pc,                 \* where the handler is
    body,               \* await body.json()
    access_token,       \* the Authorization header
    content_length,     \* the Content-Length header
    request_entries,    \* body["entry"] once it is iterated
    outcome,            \* the bundle-level Outcome's issues
    status_code,        \* 0 until one is set
    headers,            \* the response headers
    response,           \* the response Bundle, None until built
    response_entries,
    valid_fhir_rows,
    project_id,
    server_errors,      \* process: the error list
    temp_files,         \* process: the staging files
    delete_body,        \* process: the vertices to delete
    files_written,
    index_i,            \* process: the index type the rebuild is at
    calls,              \* the calls made, in order, "except" where the
                        \* except clause of process was entered
    raised,             \* the exception that escaped the handler
    current_time,       \* _is_valid_token: int(time.time()), None until read
    user_json,          \* _can_create: the answer of /user/user, None until asked
    permission,         \* the result of the call of _can_create, None until made
    requests,           \* concurrent requests: the locals of each put__bundle
    graph,              \* the graph store: the vertices of the project
    elastic,            \* the search index: the documents of each index type
    disk                \* the temporary directories and the files in them

vars == << pc, body, access_token, content_length, request_entries, outcome,
           status_code, headers, response, response_entries, valid_fhir_rows,
           project_id, server_errors, temp_files, delete_body, files_written,
           index_i, calls, raised, current_time, user_json, permission,
           requests, graph, elastic, disk >>

\* the variables of the handler of one request
handlerVars == << pc, body, access_token, content_length, request_entries, outcome,
                  status_code, headers, response, response_entries,
                  valid_fhir_rows, project_id, server_errors, temp_files,
                  delete_body, files_written, index_i, calls, raised,
                  current_time, user_json, permission >>

\* the variables shared by concurrent requests
sharedVars == << requests, graph, elastic, disk >>

\* one request is looked at: no other request runs and the stores are empty
Alone ==
    /\ requests = <<>>
    /\ graph = {}
    /\ elastic = <<>>
    /\ disk = <<>>

inputs == << body, access_token, content_length >>
entryVars == << request_entries, response_entries, valid_fhir_rows, project_id >>
processVars == << server_errors, temp_files, delete_body, files_written, index_i >>
replyVars == << outcome, status_code, headers, response >>
permVars == << current_time, user_json, permission >>

FreshIds == { "id-1", "id-2" }

\* the non-empty entry lists of at most MaxEntries entries
EntryLists == UNION { [1..n -> EntryPool] : n \in 1..MaxEntries }

Init ==
    /\ pc = "start"
    /\ body \in Bodies
    /\ access_token \in Authorizations
    /\ content_length \in ContentLengths
    /\ request_entries = <<>>
    /\ outcome = <<>>
    /\ status_code = 0
    /\ headers = [ContentType |-> None, Location |-> None]
    /\ response = None
    /\ response_entries = <<>>
    /\ valid_fhir_rows = <<>>
    /\ project_id = None
    /\ server_errors = <<>>
    /\ temp_files = <<>>
    /\ delete_body = <<>>
    /\ files_written = FALSE
    /\ index_i = 0
    /\ calls = <<>>
    /\ raised = None
    /\ current_time = None
    /\ user_json = None
    /\ permission = None
    /\ Alone

\* an exception escapes put__bundle: the framework answers 500
Crash(e) ==
    /\ pc' = "crashed"
    /\ raised' = Some(e)
    /\ status_code' = 500

(* ------------------------------ actions ------------------------------ *)

\* put__bundle up to the return of validate_bundle
ValidateBundle ==
    /\ pc = "start"
    /\ \E now \in Times, user \in Users :
         LET r == validate_bundle(body, access_token, content_length, now, user)
             asked == \E i \in 1..Len(r.calls) : r.calls[i] = "_can_create"
             perm == _can_create(Val(access_token),
                                 Val(PreflightProjectId(Val(body))), now, user)
         IN  /\ calls' = calls \o r.calls
             /\ permission' = IF asked THEN Some(perm) ELSE None
             /\ current_time' = IF asked /\ Val(access_token).decodable
                                THEN Some(now) ELSE None
             /\ user_json' = IF asked /\ perm.calls # <<>> THEN Some(user) ELSE None
             /\ IF ~IsNone(r.raised)
                THEN /\ Crash(Val(r.raised))
                     /\ UNCHANGED outcome
                ELSE /\ pc' = "validated"
                     /\ outcome' = r.value
                     /\ UNCHANGED << raised, status_code >>
    /\ UNCHANGED << inputs, sharedVars, entryVars, processVars, headers, response >>

\* the early return of put__bundle on a fatal issue
FatalExit ==
    /\ pc = "validated"
    /\ AnyFatal(outcome)
    /\ \E id \in FreshIds :
         response' = Some([id |-> id, entry |-> None, issues |-> outcome])
    /\ status_code' = FatalStatus(outcome)
    /\ headers' = [headers EXCEPT !.ContentType = Some("application/fhir+json")]
    /\ pc' = "done"
    /\ UNCHANGED << inputs, permVars, sharedVars, entryVars, processVars, outcome, calls, raised >>

\* validate_bundle_entries and the status put__bundle derives from it
ValidateEntries ==
    /\ pc = "validated"
    /\ ~AnyFatal(outcome)
    /\ \E es \in (IF Val(body).entry = "list" THEN EntryLists ELSE { <<>> }) :
         LET r == validate_bundle_entries(Val(body), es)
         IN  /\ request_entries' = es
             /\ IF ~IsNone(r.raised)
                THEN /\ Crash(Val(r.raised))
                     /\ UNCHANGED << response_entries, valid_fhir_rows, project_id,
                                     headers >>
                ELSE /\ response_entries' = r.value.response_entries
                     /\ valid_fhir_rows' = r.value.valid_fhir_rows
                     /\ project_id' = r.value.project_id
                     /\ status_code' = EntryStatus(r.value.response_entries)
                     /\ headers' = [headers EXCEPT
                                      !.ContentType = Some("application/fhir+json")]
                     /\ pc' = "process"
                     /\ UNCHANGED raised
    /\ UNCHANGED << inputs, permVars, sharedVars, processVars, outcome, response, calls >>

\* process: the rows are staged
Stage ==
    /\ pc = "process"
    /\ LET r == StageRows(valid_fhir_rows, <<>>, <<>>, FALSE)
       IN  IF ~IsNone(r.raised)
           THEN /\ Crash(Val(r.raised))
                /\ UNCHANGED << temp_files, delete_body, files_written >>
           ELSE /\ temp_files' = r.value.temp_files
                /\ delete_body' = r.value.vertices
                /\ files_written' = r.value.files_written
                /\ pc' = "p_delete"
                /\ UNCHANGED << raised, status_code >>
    /\ calls' = Append(calls, "process")
    /\ UNCHANGED << inputs, permVars, sharedVars, entryVars, server_errors, index_i, outcome, headers,
                    response >>

\* process: bulk_delete, when there is something to delete
BulkDelete ==
    /\ pc = "p_delete"
    /\ IF Len(delete_body) > 0
       THEN \E res \in GraphAnswers :
              /\ calls' = Append(calls, "bulk_delete")
              /\ IF res = "throws"
                 THEN /\ Crash("ConnectionError")
                      /\ UNCHANGED server_errors
                 ELSE /\ server_errors' =
                           IF res # "200"
                           THEN Append(server_errors, <<"bulk_delete failed">>)
                           ELSE server_errors
                      /\ pc' = "p_close"
                      /\ UNCHANGED << raised, status_code >>
       ELSE /\ pc' = "p_close"
            /\ UNCHANGED << calls, server_errors, raised, status_code >>
    /\ UNCHANGED << inputs, permVars, sharedVars, entryVars, temp_files, delete_body, files_written,
                    index_i, outcome, headers, response >>

\* process: the staging files are closed
CloseFiles ==
    /\ pc = "p_close"
    /\ temp_files' = CloseAll(temp_files)
    /\ pc' = "p_load"
    /\ UNCHANGED << inputs, permVars, sharedVars, entryVars, server_errors, delete_body, files_written,
                    index_i, replyVars, calls, raised >>

\* process: jsonschemagraph and bulk_load, when a file was written
MaterializeAndLoad ==
    /\ pc = "p_load"
    /\ IF files_written
       THEN \E run \in { "exit_0", "exit_1", "throws" }, res \in GraphAnswers :
              IF run = "throws"
              THEN /\ calls' = Append(calls, "jsonschemagraph")
                   /\ Crash("FileNotFoundError")
                   /\ UNCHANGED server_errors
              ELSE /\ calls' = calls \o <<"jsonschemagraph", "bulk_load">>
                   /\ IF res = "throws"
                      THEN /\ Crash("ConnectionError")
                           /\ UNCHANGED server_errors
                      ELSE /\ server_errors' =
                                IF res # "200"
                                THEN Append(server_errors, <<"bulk_load failed">>)
                                ELSE server_errors
                           /\ pc' = "p_index"
                           /\ UNCHANGED << raised, status_code >>
       ELSE /\ pc' = "p_index"
            /\ UNCHANGED << calls, server_errors, raised, status_code >>
    /\ UNCHANGED << inputs, permVars, sharedVars, entryVars, temp_files, delete_body, files_written,
                    index_i, outcome, headers, response >>

\* process: the project data is read into the local database
IndexRead ==
    /\ pc = "p_index"
    /\ \E res \in IndexAnswers :
         IF res = "throws"
         THEN /\ calls' = calls \o <<"get_project_data", "except">>
              /\ server_errors' = server_errors \o ExceptEntries("get_project_data")
              /\ pc' = "p_return"
              /\ UNCHANGED index_i
         ELSE /\ calls' = Append(calls, "get_project_data")
              /\ index_i' = 1
              /\ pc' = "p_index_delete"
              /\ UNCHANGED server_errors
    /\ UNCHANGED << inputs, permVars, sharedVars, entryVars, temp_files, delete_body, files_written,
                    replyVars, raised >>

\* process: meta_flat_delete of the next index type
IndexDelete ==
    /\ pc = "p_index_delete"
    /\ \E res \in IndexAnswers :
         IF res = "throws"
         THEN /\ calls' = calls \o <<"meta_flat_delete", "except">>
              /\ server_errors' = server_errors \o ExceptEntries("meta_flat_delete")
              /\ pc' = "p_return"
              /\ UNCHANGED index_i
         ELSE /\ calls' = Append(calls, "meta_flat_delete")
              /\ index_i' = IF index_i < Len(IndexTypes) THEN index_i + 1 ELSE 1
              /\ pc' = IF index_i < Len(IndexTypes) THEN "p_index_delete"
                       ELSE "p_index_load"
              /\ UNCHANGED server_errors
    /\ UNCHANGED << inputs, permVars, sharedVars, entryVars, temp_files, delete_body, files_written,
                    replyVars, raised >>

\* process: load_flat of the next index type
IndexLoad ==
    /\ pc = "p_index_load"
    /\ \E res \in IndexAnswers :
         IF res = "throws"
         THEN /\ calls' = calls \o <<"load_flat", "except">>
              /\ server_errors' = server_errors \o ExceptEntries("load_flat")
              /\ pc' = "p_return"
              /\ UNCHANGED index_i
         ELSE /\ calls' = Append(calls, "load_flat")
              /\ index_i' = IF index_i < Len(IndexTypes) THEN index_i + 1 ELSE index_i
              /\ pc' = IF index_i < Len(IndexTypes) THEN "p_index_load"
                       ELSE "p_return"
              /\ UNCHANGED server_errors
    /\ UNCHANGED << inputs, permVars, sharedVars, entryVars, temp_files, delete_body, files_written,
                    replyVars, raised >>

\* process returns server_errors and put__bundle builds its response
Respond ==
    /\ pc = "p_return"
    /\ outcome' = CommitIssues(outcome, server_errors)
    /\ status_code' = CommitStatus(status_code, server_errors)
    /\ \E id \in FreshIds :
         /\ response' = Some([id |-> id, entry |-> Some(response_entries),
                              issues |-> CommitIssues(outcome, server_errors)])
         /\ headers' = [headers EXCEPT
                          !.Location = LocationHeader(
                              CommitStatus(status_code, server_errors), id)]
    /\ pc' = "done"
    /\ UNCHANGED << inputs, permVars, sharedVars, entryVars, processVars, calls, raised >>

Next ==
    \/ ValidateBundle
    \/ FatalExit
    \/ ValidateEntries
    \/ Stage
    \/ BulkDelete
    \/ CloseFiles
    \/ MaterializeAndLoad
    \/ IndexRead
    \/ IndexDelete
    \/ IndexLoad
    \/ Respond

Spec == Init /\ [][Next]_vars

(* --------------- the status resolver on its own ---------------------- *)

\* the issues an OperationOutcome may hold
IssuePool ==
    { OperationOutcomeIssue(sev, code, <<"text">>) :
        sev \in { "fatal", "error", "success" },
        code \in { "required", "security", "forbidden", "success" } }

IssueLists == UNION { [1..n -> IssuePool] : n \in 0..MaxIssues }

ResolveInit ==
    /\ pc = "resolve"
    /\ outcome \in IssueLists
    /\ body = None
    /\ access_token = None
    /\ content_length = None
    /\ request_entries = <<>>
    /\ status_code = 0
    /\ headers = [ContentType |-> None, Location |-> None]
    /\ response = None
    /\ response_entries = <<>>
    /\ valid_fhir_rows = <<>>
    /\ project_id = None
    /\ server_errors = <<>>
    /\ temp_files = <<>>
    /\ delete_body = <<>>
    /\ files_written = FALSE
    /\ index_i = 0
    /\ calls = <<>>
    /\ raised = None
    /\ current_time = None
    /\ user_json = None
    /\ permission = None
    /\ Alone

\* _any_fatal_issues(outcome) is applied
Resolve ==
    /\ pc = "resolve"
    /\ LET r == _any_fatal_issues(outcome)
       IN  status_code' = IF r.fatal THEN Val(r.status_code) ELSE 0
    /\ pc' = "resolved"
    /\ UNCHANGED << inputs, permVars, sharedVars, entryVars, processVars, outcome, headers, response,
                    calls, raised >>

SpecResolve == ResolveInit /\ [][Resolve]_vars

(* ---------------- the two entry validators on their own --------------- *)

\* the request urls an entry may carry
EntryUrls ==
    { <<"Patient">>, <<"Patient", "/", Uuid1>>, <<"Claim", "/", Uuid1>>,
      <<"Patient", "/", "1">>, <<"Patient", "/", Uuid1, "/", "_history">> }

\* the resources an entry may carry, None when it carries none
EntryResources ==
    { None } \cup
    { Some(ResourceOf(rt, id, ident)) :
        rt \in { "Patient", "Claim" },
        id \in { None, Some("1"), Some(Uuid1) },
        ident \in BOOLEAN }

\* the entries handed to validate_entry
EntryInputs ==
    { EntryOf(parses, RequestOf(method, url), resource) :
        parses \in BOOLEAN,
        method \in { "PUT", "DELETE", "POST" },
        url \in EntryUrls,
        resource \in EntryResources }

EntryInit ==
    /\ pc = "entry"
    /\ request_entries \in { <<e>> : e \in EntryInputs }
    /\ body = None
    /\ access_token = None
    /\ content_length = None
    /\ outcome = <<>>
    /\ status_code = 0
    /\ headers = [ContentType |-> None, Location |-> None]
    /\ response = None
    /\ response_entries = <<>>
    /\ valid_fhir_rows = <<>>
    /\ project_id = None
    /\ server_errors = <<>>
    /\ temp_files = <<>>
    /\ delete_body = <<>>
    /\ files_written = FALSE
    /\ index_i = 0
    /\ calls = <<>>
    /\ raised = None
    /\ current_time = None
    /\ user_json = None
    /\ permission = None
    /\ Alone

\* the result of a validate_entry is kept: its issue in outcome, the
\* exception it raised in raised
KeepEntryResult(r, at) ==
    /\ pc' = at
    /\ raised' = r.raised
    /\ outcome' = IF ~IsNone(r.raised) \/ IsNone(r.value) THEN <<>> ELSE <<Val(r.value)>>
    /\ UNCHANGED << inputs, permVars, sharedVars, entryVars, processVars, status_code, headers,
                    response, calls >>

\* validate_entry of main.py is applied to the entry
ValidateEntryMain ==
    /\ pc = "entry"
    /\ KeepEntryResult(validate_entry(request_entries[1]), "entry_main")

\* validate_entry of bundle_validate.py is applied to the entry
ValidateEntryBundleValidate ==
    /\ pc = "entry"
    /\ KeepEntryResult(bundle_validate_validate_entry(request_entries[1]),
                       "entry_bundle_validate")

EntryNext == ValidateEntryMain \/ ValidateEntryBundleValidate

SpecEntry == EntryInit /\ [][EntryNext]_vars

(* ------------------------ concurrent requests ------------------------- *)

\* the requests in flight together
Requests == { 1, 2 }

\* the names tempfile.TemporaryDirectory() may give
DirNames == { "tmp_a", "tmp_b" }

\* the user who holds the create grant on the project ohsu-test
GrantedUser ==
    UserOf({ ProgramPath(<<"ohsu">>), ProjectsPath(<<"ohsu">>) },
           { ProjectPath(<<"ohsu">>, <<"test">>) },
           { <<ProjectPath(<<"ohsu">>, <<"test">>), CreateGrant>> })

\* a transaction bundle of the project ohsu-test that has entries
ProjectBody ==
    Some(BodyOf(Some("Bundle"), Some("transaction"),
                Some(IdentifierOf(Some(PROJECT_ID_SYSTEM), Some(<<"ohsu", "-", "test">>))),
                "list"))

SpecimenPut ==
    EntryOf(TRUE, RequestOf("PUT", <<"Specimen">>),
            Some(ResourceOf("Specimen", Some(Uuid2), TRUE)))
SubjectPut ==
    EntryOf(TRUE, RequestOf("PUT", <<"ResearchSubject">>),
            Some(ResourceOf("ResearchSubject", Some(Uuid1), TRUE)))
SpecimenDelete ==
    EntryOf(TRUE, RequestOf("DELETE", <<"Specimen", "/", Uuid2>>),
            Some(ResourceOf("Specimen", Some(Uuid2), TRUE)))
ClaimPut ==
    EntryOf(TRUE, RequestOf("PUT", <<"Claim">>),
            Some(ResourceOf("Claim", Some(Uuid1), TRUE)))

\* the entry lists the concurrent requests submit
SubmittedBundles ==
    { <<SpecimenPut>>, <<SubjectPut>>, <<SpecimenDelete>>, <<SpecimenPut, ClaimPut>> }

\* the vertex a staged resource becomes in the graph store
VertexOf(resource) == [id |-> Val(resource.id), resource_type |-> resource.resource_type]

\* the vertices bulk_load loads from the files of a directory
VerticesOf(files) ==
    UNION { { VertexOf(files[i].lines[j]) : j \in 1..Len(files[i].lines) } :
            i \in 1..Len(files) }

\* the resource type an index type flattens
FlatType(index) ==
    CASE index = "researchsubject" -> "ResearchSubject"
      [] index = "specimen" -> "Specimen"
      [] index = "file" -> "DocumentReference"

\* the documents the generator of an index type yields from the local database
Flatten(resources, index) == { v \in resources : v.resource_type = FlatType(index) }

IndexNames == { IndexTypes[i] : i \in 1..Len(IndexTypes) }

\* every request works in the one directory
FreeDirs_Fixed(in_use) == { "tmp_a" }

\* tempfile.TemporaryDirectory() makes a directory no one else holds
FreeDirs(in_use) == DirNames \ in_use

\* materialize and load are skipped when the graph already holds the resources
LoadGuard_Dedup(files_written_, files, vertices) ==
    files_written_ /\ ~(VerticesOf(files) \subseteq vertices)

\* the condition under which process materializes and loads
LoadGuard(files_written_, files, vertices) == files_written_

\* the locals of a request that has not started
NewRequest(es, authorization) ==
    [pc |-> "start", entries |-> es, authorization |-> authorization,
     outcome |-> <<>>, status_code |-> 0,
     headers |-> [ContentType |-> None, Location |-> None],
     response |-> None, response_entries |-> <<>>, rows |-> <<>>,
     server_errors |-> <<>>, temp_dir |-> None, delete_body |-> <<>>,
     files_written |-> FALSE, snapshot |-> {}, index_i |-> 0, log |-> <<>>,
     loaded |-> None, deleted |-> None, after |-> {}]

ConcurrentInit ==
    /\ pc = "concurrent"
    /\ body = None
    /\ access_token = None
    /\ content_length = None
    /\ request_entries = <<>>
    /\ outcome = <<>>
    /\ status_code = 0
    /\ headers = [ContentType |-> None, Location |-> None]
    /\ response = None
    /\ response_entries = <<>>
    /\ valid_fhir_rows = <<>>
    /\ project_id = None
    /\ server_errors = <<>>
    /\ temp_files = <<>>
    /\ delete_body = <<>>
    /\ files_written = FALSE
    /\ index_i = 0
    /\ calls = <<>>
    /\ raised = None
    /\ current_time = None
    /\ user_json = None
    /\ permission = None
    /\ requests \in [Requests -> { NewRequest(es, a) :
                                     es \in SubmittedBundles,
                                     a \in { None, Some(SignedToken) } }]
    /\ graph = {}
    /\ elastic = [i \in IndexNames |-> {}]
    /\ disk = [d \in DirNames |-> <<>>]

\* the directories requests hold
DirsInUse == { Val(requests[s].temp_dir) : s \in { t \in Requests : ~IsNone(requests[t].temp_dir) } }

\* the ids responses already carry
IdsInUse == { Val(requests[s].response).id : s \in { t \in Requests : ~IsNone(requests[t].response) } }

\* the requests that have ended
Ended == { s \in Requests : requests[s].pc \in { "done", "crashed" } }

\* the exception leaves process and put__bundle; the directory is removed
Crashed(q) ==
    [q EXCEPT !.pc = "crashed", !.status_code = 500, !.temp_dir = None, !.snapshot = {}]

\* leaving the with block removes the directory
Removed(dir) == [disk EXCEPT ![dir] = <<>>]

\* put__bundle of request r up to the call of process
Receive(r) ==
    /\ requests[r].pc = "start"
    /\ LET q == requests[r]
           o == validate_bundle(ProjectBody, q.authorization, Some(Digits(100)), 1,
                                GrantedUser).value
       IN  IF AnyFatal(o)
           THEN \E id \in FreshIds \ IdsInUse :
                  requests' = [requests EXCEPT ![r] =
                      [q EXCEPT !.pc = "done", !.outcome = o,
                                !.status_code = FatalStatus(o),
                                !.headers = [@ EXCEPT !.ContentType =
                                                Some("application/fhir+json")],
                                !.response = Some([id |-> id, entry |-> None,
                                                   issues |-> o]),
                                !.after = Ended]]
           ELSE LET v == validate_bundle_entries(Val(ProjectBody), q.entries).value
                IN  requests' = [requests EXCEPT ![r] =
                      [q EXCEPT !.pc = "process", !.outcome = o,
                                !.response_entries = v.response_entries,
                                !.rows = v.valid_fhir_rows,
                                !.status_code = EntryStatus(v.response_entries),
                                !.headers = [@ EXCEPT !.ContentType =
                                                Some("application/fhir+json")],
                                !.after = Ended]]
    /\ UNCHANGED << handlerVars, graph, elastic, disk >>

\* process of request r: the rows are staged in a new directory
StageIn(r) ==
    /\ requests[r].pc = "process"
    /\ \E d \in FreeDirs(DirsInUse) :
         LET q == requests[r]
             st == StageRows(q.rows, disk[d], <<>>, FALSE)
         IN  IF ~IsNone(st.raised)
             THEN /\ requests' = [requests EXCEPT ![r] =
                         Crashed([q EXCEPT !.log = Append(@, "process")])]
                  /\ UNCHANGED disk
             ELSE /\ requests' = [requests EXCEPT ![r] =
                         [q EXCEPT !.pc = "p_delete", !.temp_dir = Some(d),
                                   !.delete_body = st.value.vertices,
                                   !.files_written = st.value.files_written,
                                   !.log = Append(@, "process")]]
                  /\ disk' = [disk EXCEPT ![d] = st.value.temp_files]
    /\ UNCHANGED << handlerVars, graph, elastic >>

\* process of request r: bulk_delete removes its vertices from the graph store
DeleteFromGraph(r) ==
    /\ requests[r].pc = "p_delete"
    /\ LET q == requests[r]
       IN  IF Len(q.delete_body) > 0
           THEN \E res \in GraphAnswers :
                  LET called == [q EXCEPT !.log = Append(@, "bulk_delete"),
                                          !.deleted = Some(q.delete_body)]
                  IN  IF res = "throws"
                      THEN /\ requests' = [requests EXCEPT ![r] = Crashed(called)]
                           /\ disk' = Removed(Val(q.temp_dir))
                           /\ UNCHANGED graph
                      ELSE /\ requests' = [requests EXCEPT ![r] =
                                  [called EXCEPT !.pc = "p_load",
                                       !.server_errors =
                                           IF res # "200"
                                           THEN Append(@, <<"bulk_delete failed">>)
                                           ELSE @]]
                           /\ graph' = IF res = "200"
                                       THEN { v \in graph :
                                                ~Contains(q.delete_body, <<v.id>>) }
                                       ELSE graph
                           /\ UNCHANGED disk
           ELSE /\ requests' = [requests EXCEPT ![r].pc = "p_load"]
                /\ UNCHANGED << graph, disk >>
    /\ UNCHANGED << handlerVars, elastic >>

\* process of request r: its files are closed, materialized and loaded
LoadIntoGraph(r) ==
    /\ requests[r].pc = "p_load"
    /\ LET q == requests[r]
           d == Val(q.temp_dir)
           files == CloseAll(disk[d])
       IN  IF LoadGuard(q.files_written, files, graph)
           THEN \E run \in { "exit_0", "throws" }, res \in GraphAnswers :
                  IF run = "throws"
                  THEN /\ requests' = [requests EXCEPT ![r] =
                              Crashed([q EXCEPT !.log = Append(@, "jsonschemagraph")])]
                       /\ disk' = Removed(d)
                       /\ UNCHANGED graph
                  ELSE LET called == [q EXCEPT
                                        !.log = @ \o <<"jsonschemagraph", "bulk_load">>,
                                        !.loaded = Some(files)]
                       IN  IF res = "throws"
                           THEN /\ requests' = [requests EXCEPT ![r] = Crashed(called)]
                                /\ disk' = Removed(d)
                                /\ UNCHANGED graph
                           ELSE /\ requests' = [requests EXCEPT ![r] =
                                       [called EXCEPT !.pc = "p_index",
                                            !.server_errors =
                                                IF res # "200"
                                                THEN Append(@, <<"bulk_load failed">>)
                                                ELSE @]]
                                /\ graph' = IF res = "200"
                                            THEN graph \cup VerticesOf(files)
                                            ELSE graph
                                /\ disk' = [disk EXCEPT ![d] = files]
           ELSE /\ requests' = [requests EXCEPT ![r].pc = "p_index"]
                /\ disk' = [disk EXCEPT ![d] = files]
                /\ UNCHANGED graph
    /\ UNCHANGED << handlerVars, elastic >>

\* the except clause of request r after a call of the rebuild threw
Excepted(q, what) ==
    [q EXCEPT !.pc = "p_return", !.log = @ \o <<what, "except">>,
              !.server_errors = @ \o ExceptEntries(what)]

\* process of request r: the project data is read into its local database
ReadGraph(r) ==
    /\ requests[r].pc = "p_index"
    /\ LET q == requests[r]
       IN  \E res \in IndexAnswers :
             requests' = [requests EXCEPT ![r] =
                 IF res = "throws"
                 THEN Excepted(q, "get_project_data")
                 ELSE [q EXCEPT !.pc = "p_index_delete", !.snapshot = graph,
                                !.index_i = 1,
                                !.log = Append(@, "get_project_data")]]
    /\ UNCHANGED << handlerVars, graph, elastic, disk >>

\* process of request r: meta_flat_delete empties the next index
DeleteIndex(r) ==
    /\ requests[r].pc = "p_index_delete"
    /\ LET q == requests[r]
           last == q.index_i = Len(IndexTypes)
       IN  \E res \in IndexAnswers :
             IF res = "throws"
             THEN /\ requests' = [requests EXCEPT ![r] = Excepted(q, "meta_flat_delete")]
                  /\ UNCHANGED elastic
             ELSE /\ requests' = [requests EXCEPT ![r] =
                         [q EXCEPT !.pc = IF last THEN "p_index_load" ELSE @,
                                   !.index_i = IF last THEN 1 ELSE @ + 1,
                                   !.log = Append(@, "meta_flat_delete")]]
                  /\ elastic' = [elastic EXCEPT ![IndexTypes[q.index_i]] = {}]
    /\ UNCHANGED << handlerVars, graph, disk >>

\* process of request r: load_flat writes the next index from its local database
LoadIndex(r) ==
    /\ requests[r].pc = "p_index_load"
    /\ LET q == requests[r]
           last == q.index_i = Len(IndexTypes)
           index == IndexTypes[q.index_i]
       IN  \E res \in IndexAnswers :
             IF res = "throws"
             THEN /\ requests' = [requests EXCEPT ![r] = Excepted(q, "load_flat")]
                  /\ UNCHANGED elastic
             ELSE /\ requests' = [requests EXCEPT ![r] =
                         [q EXCEPT !.pc = IF last THEN "p_return" ELSE @,
                                   !.index_i = IF last THEN @ ELSE @ + 1,
                                   !.log = Append(@, "load_flat")]]
                  /\ elastic' = [elastic EXCEPT ![index] = @ \cup Flatten(q.snapshot, index)]
    /\ UNCHANGED << handlerVars, graph, disk >>

\* process of request r returns and put__bundle builds its response
Reply(r) ==
    /\ requests[r].pc = "p_return"
    /\ LET q == requests[r]
           status == CommitStatus(q.status_code, q.server_errors)
           issues == CommitIssues(q.outcome, q.server_errors)
       IN  \E id \in FreshIds \ IdsInUse :
             /\ requests' = [requests EXCEPT ![r] =
                    [q EXCEPT !.pc = "done", !.outcome = issues,
                              !.status_code = status,
                              !.response = Some([id |-> id,
                                                 entry |-> Some(q.response_entries),
                                                 issues |-> issues]),
                              !.headers = [@ EXCEPT !.Location =
                                              LocationHeader(status, id)],
                              !.temp_dir = None, !.snapshot = {}]]
             /\ disk' = Removed(Val(q.temp_dir))
    /\ UNCHANGED << handlerVars, graph, elastic >>

ConcurrentNext ==
    \E r \in Requests :
        \/ Receive(r)
        \/ StageIn(r)
        \/ DeleteFromGraph(r)
        \/ LoadIntoGraph(r)
        \/ ReadGraph(r)
        \/ DeleteIndex(r)
        \/ LoadIndex(r)
        \/ Reply(r)

SpecConcurrent == ConcurrentInit /\ [][ConcurrentNext]_vars

(* ------------------------------ claims ------------------------------- *)

CommitCalls == { "process", "bulk_delete", "jsonschemagraph", "bulk_load",
                 "get_project_data", "meta_flat_delete", "load_flat" }

Called(c) == \E i \in 1..Len(calls) : calls[i] = c

\* the issues of the Outcome that preflight produced: put__bundle itself only
\* ever adds an issue of code exception
PreflightIssues == SelectSeq(outcome, LAMBDA x : x.code # "exception")

PreflightFatal == HasSeverity(PreflightIssues, "fatal")

\* C1: whenever the Outcome validate_bundle returned holds a fatal issue, the
\* request is at its preflight result or at its end, and neither process nor
\* any backend collaborator has been invoked.
C1_FatalNeverCommits ==
    PreflightFatal =>
        /\ pc \in { "validated", "done" }
        /\ \A i \in 1..Len(calls) : calls[i] \notin CommitCalls

\* a bundle that has entries is rejected by the permission check and ends
C1_Witness ==
    /\ pc = "done"
    /\ PreflightFatal
    /\ Val(body).entry = "list"
    /\ status_code = 403

\* C2 (as claimed): an Outcome holding a fatal security issue and a fatal
\* forbidden issue resolves to 401.
C2_SecurityBeforeForbidden ==
    ( /\ pc = "resolved"
      /\ \E i \in 1..Len(outcome) :
            outcome[i].severity = "fatal" /\ outcome[i].code = "security"
      /\ \E i \in 1..Len(outcome) :
            outcome[i].severity = "fatal" /\ outcome[i].code = "forbidden" )
    => status_code = 401

\* the entry passes validate_entry
Passes(entry) ==
    LET v == validate_entry(entry)
    IN  IsNone(v.raised) /\ IsNone(v.value)

ValidCount(entries) == Cardinality({ i \in 1..Len(entries) : Passes(entries[i]) })

\* the handler has answered on the path that validates the entries
NonFatalDone == pc = "done" /\ ~PreflightFatal

\* C3, its table: with a fatal issue in the Outcome the status follows the
\* security and forbidden codes, is never 201 or 202, and no entries are sent.
C3_Table ==
    (pc = "done" /\ PreflightFatal) =>
        /\ (HasCode(outcome, "security") /\ ~HasCode(outcome, "forbidden"))
              => status_code = 401
        /\ (HasCode(outcome, "forbidden") /\ ~HasCode(outcome, "security"))
              => status_code = 403
        /\ (~HasCode(outcome, "forbidden") /\ ~HasCode(outcome, "security"))
              => status_code = 422
        /\ status_code \notin { 201, 202 }
        /\ IsNone(Val(response).entry)

\* C3, its last sentence: a request without an Authorization header ends 401
C3_NoAuthorization ==
    (pc \in { "done", "crashed" } /\ IsNone(access_token)) => status_code = 401

\* C3 (as claimed): the table of fatal statuses holds, and a request without
\* an Authorization header ends 401 whichever other preflight checks fail.
C3_FatalStatus == C3_Table /\ C3_NoAuthorization

\* C4: without a fatal issue and without commit errors, N > 0 entries of
\* which k pass validation end 201 iff k = N, 202 iff 0 < k < N, 422 iff k = 0.
C4_EntryStatus ==
    LET n == Len(request_entries)
        k == ValidCount(request_entries)
    IN  (NonFatalDone /\ server_errors = <<>> /\ n > 0) =>
            /\ status_code = 201 <=> k = n
            /\ status_code = 202 <=> (0 < k /\ k < n)
            /\ status_code = 422 <=> k = 0

\* a bundle of two entries, one of them valid, was committed without error
C4_Witness ==
    /\ NonFatalDone
    /\ server_errors = <<>>
    /\ Len(request_entries) = 2
    /\ ValidCount(request_entries) = 1
    /\ status_code = 202

\* C5: when process returned errors the request ends 500, whatever status
\* the entries gave, and the bundle-level Outcome holds an issue of code
\* exception whose diagnostics contain every message returned.
C5_CommitErrorIs500 ==
    (NonFatalDone /\ server_errors # <<>>) =>
        /\ status_code = 500
        /\ \E i \in 1..Len(outcome) :
              /\ outcome[i].code = "exception"
              /\ \A j \in 1..Len(server_errors) :
                    Contains(outcome[i].diagnostics, server_errors[j])

\* a partially valid bundle whose bulk load answered a failure status
C5_Witness ==
    /\ NonFatalDone
    /\ EntryStatus(response_entries) = 202
    /\ \E j \in 1..Len(server_errors) : server_errors[j] = <<"bulk_load failed">>
    /\ status_code = 500

\* C6 (as claimed): n >= 1 errors add exactly n issues to the bundle-level
\* Outcome, the j-th of severity error, code exception and the j-th message.
C6_OneIssuePerError ==
    LET n == Len(server_errors)
        m == Len(PreflightIssues)
    IN  (NonFatalDone /\ n >= 1) =>
            /\ Len(outcome) = m + n
            /\ \A j \in 1..n :
                  outcome[m + j] = OperationOutcomeIssue("error", "exception",
                                                         server_errors[j])

\* C6 (amended): n >= 1 errors add exactly one issue to the bundle-level
\* Outcome, after the success issue of preflight: severity fatal, code
\* exception, diagnostics the printed list of all n messages.
C6_OneIssueForAllErrors ==
    (NonFatalDone /\ Len(server_errors) >= 1) =>
        outcome = << SuccessIssue,
                     OperationOutcomeIssue("fatal", "exception",
                                           StrList(server_errors)) >>

\* bulk delete and bulk load both answered a failure status
C6_Witness ==
    /\ NonFatalDone
    /\ server_errors = << <<"bulk_delete failed">>, <<"bulk_load failed">> >>
    /\ Len(outcome) = 2

\* C7 (as claimed): a bundle that passes preflight and whose N > 0 entries
\* all fail validation ends 422.
C7_AllInvalidIs422 ==
    (NonFatalDone /\ Len(request_entries) > 0 /\ ValidCount(request_entries) = 0)
        => status_code = 422

\* C7 (amended): such a bundle still goes through process, and ends 422 when
\* process returned no error and 500 when it returned one.
C7_AllInvalidIs422Or500 ==
    (NonFatalDone /\ Len(request_entries) > 0 /\ ValidCount(request_entries) = 0)
        => /\ Called("process")
           /\ status_code = IF server_errors = <<>> THEN 422 ELSE 500

\* two invalid entries, the index rebuild went through
C7_Witness ==
    /\ NonFatalDone
    /\ Len(request_entries) = 2
    /\ ValidCount(request_entries) = 0
    /\ Called("load_flat")
    /\ status_code = 422

\* C8: on the non-fatal path the response holds one entry per request entry,
\* in order: status "200" and no outcome for an entry that passed, status
\* "422" and an Outcome of that entry's one issue otherwise; so N - k response
\* entries are not "200".
C8_ResponseEntries ==
    NonFatalDone =>
        LET sent == Val(Val(response).entry)
            n == Len(request_entries)
        IN  /\ Len(sent) = n
            /\ \A i \in 1..n :
                  IF Passes(request_entries[i])
                  THEN sent[i] = [status |-> "200", outcome |-> None]
                  ELSE sent[i] = [status |-> "422",
                                  outcome |-> Some(<< Val(validate_entry(
                                                  request_entries[i]).value) >>)]
            /\ Cardinality({ i \in 1..n : sent[i].status # "200" })
                  = n - ValidCount(request_entries)

\* an invalid entry followed by a valid one
C8_Witness ==
    /\ NonFatalDone
    /\ Len(request_entries) = 2
    /\ ~Passes(request_entries[1])
    /\ Passes(request_entries[2])

\* C9 (as claimed): once process is invoked no exception escapes it because a
\* backend failed.
C9_ProcessNeverRaises ==
    ~( /\ pc = "crashed"
       /\ Called("process")
       /\ calls[Len(calls)] \in { "bulk_delete", "jsonschemagraph", "bulk_load" } )

\* process was invoked with no row and is about to return
EmptyRun ==
    /\ pc = "p_return"
    /\ valid_fhir_rows = <<>>

\* C10 (as claimed): process invoked with no PUT and no DELETE row returns an
\* empty error list.
C10_EmptyRunNoErrors == EmptyRun => server_errors = <<>>

\* the calls of an index rebuild that went through
FullRebuild ==
    << "get_project_data", "meta_flat_delete", "meta_flat_delete",
       "meta_flat_delete", "load_flat", "load_flat", "load_flat" >>

\* the calls made from the invocation of process on
RECURSIVE After(_, _)
After(cs, c) ==
    IF cs = <<>> THEN <<>>
    ELSE IF Head(cs) = c THEN Tail(cs)
    ELSE After(Tail(cs), c)

\* C10 (amended): process invoked with no PUT and no DELETE row calls neither
\* bulk delete nor the materialization nor bulk load, and attempts the index
\* rebuild; it returns an empty error list exactly when the whole rebuild
\* went through, and otherwise the traceback and the message of the call of
\* the rebuild that threw.
C10_EmptyRunErrorsFromRebuild ==
    EmptyRun =>
        LET made == After(calls, "process")
        IN  /\ \A i \in 1..Len(made) :
                  made[i] \notin { "bulk_delete", "jsonschemagraph", "bulk_load" }
            /\ Len(made) >= 1 /\ made[1] = "get_project_data"
            /\ server_errors = <<>> <=> made = FullRebuild
            /\ server_errors # <<>> =>
                  LET k == Len(made) - 1
                  IN  /\ k >= 1
                      /\ made = Append(SubSeq(FullRebuild, 1, k), "except")
                      /\ server_errors =
                            << <<"Traceback (most recent call last): ",
                                 made[k], " failed">>,
                               <<made[k], " failed">> >>

\* both entries of the bundle were invalid and the first index delete threw
C10_Witness ==
    /\ EmptyRun
    /\ Len(request_entries) = 2
    /\ After(calls, "process") = << "get_project_data", "meta_flat_delete", "except" >>
    /\ Len(server_errors) = 2

\* an invocation of process has ended: it is about to return, it has
\* returned, or an exception has escaped it
ProcessEnded == Called("process") /\ pc \in { "p_return", "done", "crashed" }

\* C11, where process returns: the bulk load was attempted when a file was
\* written, whatever bulk delete answered, the index rebuild was attempted,
\* and a failure status left its message in the error list.
C11_StatusContinues ==
    (Called("process") /\ pc \in { "p_return", "done" }) =>
        /\ files_written => Called("bulk_load")
        /\ Called("get_project_data")
        /\ \A i \in 1..Len(server_errors) :
              server_errors[i] = <<"bulk_delete failed">> => Called("bulk_delete")

\* C11 (as claimed): in every invocation of process that has ended and in
\* which a delete or load step ran, bulk load was attempted when PUT groups
\* exist and the index rebuild was attempted, whatever the outcome of the
\* delete and load steps.
C11_PipelineContinues ==
    (ProcessEnded /\ (Called("bulk_delete") \/ Called("jsonschemagraph"))) =>
        /\ files_written => Called("bulk_load")
        /\ Called("get_project_data")

\* validate_bundle has been called and has returned or raised
PreflightOver == pc # "start"

\* an exception escaped validate_bundle: no Outcome was returned
PreflightRaised == pc = "crashed" /\ outcome = <<>>

\* the Outcome holds the fatal issue of that code and diagnostics
HasFatal(code, diag) ==
    \E i \in 1..Len(outcome) : outcome[i] = OperationOutcomeIssue("fatal", code, diag)

\* the project id the request names: the value of an identifier of the
\* project-id system
NamedProjectId ==
    IF ~IsNone(body) /\ ~IsNone(Val(body).identifier)
       /\ Val(Val(body).identifier).system = Some("https://aced-idp.org/project_id")
    THEN Val(Val(body).identifier).value
    ELSE None

\* every preflight check that fails on the request has its fatal issue in the
\* Outcome
AllFailingChecksSurface ==
    /\ (~IsNone(content_length) /\ ParseInt(Val(content_length)) > 52428800)
          => HasFatal("required", <<"Bundle body greater than 50 MB">>)
    /\ (IsNone(body) \/ body = Some(EmptyBody))
          => HasFatal("required", <<"Bundle missing body">>)
    /\ IsNone(access_token)
          => HasFatal("security", <<"Missing Authorization header">>)
    /\ (~IsNone(body) /\ Val(body).resourceType # Some("Bundle"))
          => HasFatal("required", <<"Body must be a FHIR Bundle, not ",
                                    Fmt(Val(body).resourceType)>>)
    /\ (~IsNone(body) /\ Val(body).type # Some("transaction"))
          => HasFatal("required", <<"Bundle must be of type transaction, not ",
                                    Fmt(Val(body).type)>>)
    /\ (~IsNone(body) /\ IsNone(Val(body).identifier))
          => HasFatal("required", <<"Bundle missing identifier">>)
    /\ (~IsNone(body) /\ IsNone(NamedProjectId))
          => HasFatal("required",
                      <<"Bundle missing identifier https://aced-idp.org/project_id">>)
    /\ (~IsNone(NamedProjectId) /\ Len(Split(Val(NamedProjectId), "-")) # 2)
          => HasFatal("required",
                      <<"Bundle identifier project id not in the from 'str-str'">>)
    /\ (~IsNone(body) /\ Val(body).entry \in { "absent", "empty_list" })
          => HasFatal("required", <<"Bundle missing entry">>)

\* C12, where validate_bundle returns: the Outcome it returned holds the
\* fatal issue of every failing check.
C12_SurfaceWhenReturned == (PreflightOver /\ ~PreflightRaised) => AllFailingChecksSurface

\* C12 (as claimed): for every combination of failing preflight checks the
\* Outcome of validate_bundle holds one fatal issue, with its diagnostics, for
\* each failing check.
C12_AllChecksSurface == PreflightOver => AllFailingChecksSurface

\* validate_bundle has just returned its Outcome
PreflightReturned == pc = "validated"

\* no preflight check fails on the request
NoCheckFails ==
    /\ ~(~IsNone(content_length) /\ ParseInt(Val(content_length)) > 52428800)
    /\ ~IsNone(body) /\ body # Some(EmptyBody)
    /\ ~IsNone(access_token)
    /\ Val(body).resourceType = Some("Bundle")
    /\ Val(body).type = Some("transaction")
    /\ ~IsNone(NamedProjectId) /\ Len(Split(Val(NamedProjectId), "-")) = 2
    /\ Val(body).entry \notin { "absent", "empty_list" }

\* the permission check was made and allowed the caller
Allowed ==
    /\ ~IsNone(permission)
    /\ IsNone(Val(permission).raised)
    /\ Val(permission).value.can_create

\* C13: the Outcome validate_bundle returns is never empty; it is exactly one
\* issue of severity success and code success when no check failed and the
\* permission check allowed the caller, and otherwise holds fatal issues only.
C13_SuccessOrFatal ==
    PreflightReturned =>
        /\ Len(outcome) > 0
        /\ IF NoCheckFails /\ Allowed
           THEN /\ Len(outcome) = 1
                /\ outcome[1].severity = "success"
                /\ outcome[1].code = "success"
           ELSE \A i \in 1..Len(outcome) : outcome[i].severity = "fatal"

\* preflight returned the success issue for a bundle that has entries
C13_Witness ==
    /\ PreflightReturned
    /\ NoCheckFails /\ Allowed
    /\ Val(body).entry = "list"
    /\ Len(outcome) = 1 /\ outcome[1].code = "success"

\* the Outcome holds the issue of the size check
SizeIssueRaised == HasFatal("required", <<"Bundle body greater than 50 MB">>)

\* C14, for a request that carries a Content-Length: the size issue is in
\* the Outcome exactly when the length is greater than 52428800, and a
\* request over the limit never reaches the entries.
C14_SizeCheckWhenPresent ==
    (PreflightOver /\ ~PreflightRaised /\ ~IsNone(content_length)) =>
        /\ SizeIssueRaised <=> ParseInt(Val(content_length)) > 52428800
        /\ (pc = "done" /\ ParseInt(Val(content_length)) > 52428800)
              => status_code \in { 401, 403, 422 }

\* C14 (as claimed): the Outcome of validate_bundle holds the fatal required
\* issue of the size check exactly when the Content-Length is absent or is
\* greater than 52428800.
C14_SizeCheck ==
    (PreflightOver /\ ~PreflightRaised) =>
        ( SizeIssueRaised <=>
            ( \/ IsNone(content_length)
              \/ ParseInt(Val(content_length)) > 52428800 ) )

\* the request names a project id of exactly two '-'-separated segments
WellFormedProjectId ==
    ~IsNone(NamedProjectId) /\ Len(Split(Val(NamedProjectId), "-")) = 2

\* C15, as the code has it: _can_create is invoked when, and only when, the
\* Authorization header and a project id are present, well-formed or not.
C15_InvokedWhenBothPresent ==
    (PreflightOver /\ ~IsNone(body)) =>
        ( Called("_can_create") <=> (~IsNone(access_token) /\ ~IsNone(NamedProjectId)) )

\* C15 (as claimed): for a request whose body is a JSON object, _can_create
\* is invoked when, and only when, the Authorization header is present and
\* the project id is present and well-formed; otherwise it is not invoked
\* and validate_bundle still returns its Outcome.
C15_InvokedOnlyWhenWellFormed ==
    (PreflightOver /\ ~IsNone(body)) =>
        /\ Called("_can_create") <=> (~IsNone(access_token) /\ WellFormedProjectId)
        /\ ~(~IsNone(access_token) /\ WellFormedProjectId) => ~PreflightRaised

\* the permission check was made and returned: its (can_create, msg, error_code)
PermissionReturned == ~IsNone(permission) /\ IsNone(Val(permission).raised)

\* the issues of the Outcome whose code is security or forbidden
AccessIssues ==
    SelectSeq(outcome, LAMBDA x : x.code \in { "security", "forbidden" })

InvalidTokenChecked ==
    /\ ~IsNone(permission)
    /\ \/ ~Val(access_token).decodable
       \/ /\ ~IsNone(current_time)
          /\ ~( Val(access_token).iat <= Val(current_time)
                /\ Val(current_time) <= Val(access_token).exp )

\* C17: called with an undecodable or expired token, _can_create returns not
\* allowed with the failure kind 401 and a message without querying the user
\* endpoint, and the request ends 401; called with a valid token it queries
\* the user endpoint.
C17_TokenBeforeLookup ==
    /\ InvalidTokenChecked =>
          /\ ~Called("user_user")
          /\ IsNone(user_json)
          /\ IsNone(Val(permission).raised)
          /\ ~Val(permission).value.can_create
          /\ Val(permission).value.error_code = Some(401)
          /\ Len(Val(permission).value.msg) > 0
          /\ pc \in { "validated", "done" }
          /\ pc = "done" => status_code = 401
    /\ (~IsNone(permission) /\ ~InvalidTokenChecked) =>
          Called("user_user") /\ ~IsNone(user_json)

\* the request of a token that expired before the clock value read has
\* ended 401
C17_Witness ==
    /\ pc = "done"
    /\ InvalidTokenChecked
    /\ Val(access_token).decodable
    /\ Val(current_time) > Val(access_token).exp
    /\ status_code = 401
    /\ Val(permission).value.msg = <<"Token has expired">>

\* the entry one of the two validate_entry was applied to
TheEntry == request_entries[1]

\* a validate_entry has been applied to the entry
EntryValidated == pc \in { "entry_main", "entry_bundle_validate" }

\* the earliest rule the entry violates, in the order structural parse,
\* method, and for PUT: id missing, id not a UUID, resourceType not in the
\* allow-list, identifier empty
EarliestViolated(entry) ==
    IF ~entry.parses THEN "structure"
    ELSE IF entry.request.method \notin { "PUT", "DELETE" } THEN "method"
    ELSE IF entry.request.method = "DELETE" THEN "delete rules"
    ELSE IF IsNone(entry.resource) \/ IsNone(Val(entry.resource).id) THEN "id missing"
    ELSE IF Val(Val(entry.resource).id) \notin UuidShaped THEN "id not a UUID"
    ELSE IF Val(entry.resource).resource_type \notin
              { "ResearchStudy", "Patient", "ResearchSubject", "Substance",
                "Specimen", "Observation", "Condition", "Medication",
                "MedicationAdministration", "DocumentReference", "Task",
                "FamilyMemberHistory", "BodyStructure", "Organization" }
    THEN "resourceType"
    ELSE IF ~Val(entry.resource).identifier THEN "identifier"
    ELSE "none"

\* the rule an Issue reports, by its code and the head of its diagnostics
RuleOf(issue) ==
    IF issue.severity # "error" THEN "other"
    ELSE IF issue.code = "structure" THEN "structure"
    ELSE IF issue.code = "invariant" /\ issue.diagnostics[1] = "Invalid entry.method "
    THEN "method"
    ELSE IF issue.code = "invariant" /\ issue.diagnostics[1] = "Resource missing id"
    THEN "id missing"
    ELSE IF issue.code = "invariant" /\ issue.diagnostics[1] = "Resource id "
    THEN "id not a UUID"
    ELSE IF issue.code = "invariant" /\ issue.diagnostics[1] = "Unsupported resource "
    THEN "resourceType"
    ELSE IF issue.code = "required" /\ issue.diagnostics[1] = "Missing identifier for "
    THEN "identifier"
    ELSE "other"

\* the rule the validate_entry applied reported, none when it returned None
ReportedRule == IF outcome = <<>> THEN "none" ELSE RuleOf(outcome[1])

\* C18, for validate_entry of main.py on an entry that carries a resource:
\* the Issue returned is that of the earliest violated rule.
C18_MainOrder ==
    ( /\ pc = "entry_main"
      /\ EarliestViolated(TheEntry) # "delete rules"
      /\ (TheEntry.parses /\ TheEntry.request.method = "PUT")
            => ~IsNone(TheEntry.resource) )
    => (IsNone(raised) /\ ReportedRule = EarliestViolated(TheEntry))

\* C18 (as claimed): for an entry that is not a parsed DELETE, validate_entry
\* returns the Issue of the earliest violated rule in the order structural
\* parse, method, and for PUT: id missing, id not a UUID, resourceType not in
\* the allow-list, identifier empty; and None when no rule is violated.
C18_EarliestRuleWins ==
    (EntryValidated /\ EarliestViolated(TheEntry) # "delete rules")
    => (IsNone(raised) /\ ReportedRule = EarliestViolated(TheEntry))

\* C18, read on validate_entry of bundle_validate.py for an entry that
\* carries a resource: the Issue returned is that of the earliest violated
\* rule in the order of the claim.
C18_BundleValidateOrder ==
    ( /\ pc = "entry_bundle_validate"
      /\ EarliestViolated(TheEntry) # "delete rules"
      /\ (TheEntry.parses /\ TheEntry.request.method = "PUT")
            => ~IsNone(TheEntry.resource) )
    => (IsNone(raised) /\ ReportedRule = EarliestViolated(TheEntry))

\* the url splits on / into exactly two segments, a resource type of the
\* allow-list and a UUID
WellFormedDeleteUrl(url) ==
    LET segments == Split(url, "/")
    IN  /\ Len(segments) = 2
        /\ Len(segments[1]) = 1
        /\ segments[1][1] \in
              { "ResearchStudy", "Patient", "ResearchSubject", "Substance",
                "Specimen", "Observation", "Condition", "Medication",
                "MedicationAdministration", "DocumentReference", "Task",
                "FamilyMemberHistory", "BodyStructure", "Organization" }
        /\ Len(segments[2]) = 1
        /\ segments[2][1] \in UuidShaped

\* a parsed DELETE entry that carries no resource
IsDelete(entry) ==
    entry.parses /\ entry.request.method = "DELETE" /\ IsNone(entry.resource)

\* C19, for validate_entry of bundle_validate.py: a DELETE entry gets no
\* Issue iff its url is well-formed, and an error Issue of code required
\* otherwise.
C19_BundleValidateDeleteRule ==
    (pc = "entry_bundle_validate" /\ IsDelete(TheEntry)) =>
        /\ IsNone(raised)
        /\ outcome = <<>> <=> WellFormedDeleteUrl(TheEntry.request.url)
        /\ outcome # <<>> =>
              (outcome[1].severity = "error" /\ outcome[1].code = "required")

\* the bundle submitted holds DELETE entries only
OnlyDeletes ==
    /\ request_entries # <<>>
    /\ \A i \in 1..Len(request_entries) : IsDelete(request_entries[i])

\* C19 (as claimed): in a bundle of DELETE entries, which carry no resource,
\* every entry is validated, answered "200" iff its url is well-formed and
\* "422" with an error Issue of code required otherwise, and the bundle ends
\* 201 with every entry "200" when all its entries are well-formed and the
\* commit reports no error.
C19_DeleteEntries ==
    (OnlyDeletes /\ pc \in { "process", "done", "crashed" }) =>
        /\ ~(pc = "crashed" /\ ~Called("process"))
        /\ Len(response_entries) = Len(request_entries)
        /\ \A i \in 1..Len(response_entries) :
              IF WellFormedDeleteUrl(request_entries[i].request.url)
              THEN response_entries[i].status = "200"
              ELSE /\ response_entries[i].status = "422"
                   /\ Val(response_entries[i].outcome)[1].code = "required"
        /\ ( /\ pc = "done"
             /\ server_errors = <<>>
             /\ \A i \in 1..Len(request_entries) :
                   WellFormedDeleteUrl(request_entries[i].request.url) )
              => status_code = 201

\* the entries of xs that pass validate_entry, in the order of xs
RECURSIVE PassingEntries(_)
PassingEntries(xs) ==
    IF xs = <<>> THEN <<>>
    ELSE IF Passes(Head(xs)) THEN <<Head(xs)>> \o PassingEntries(Tail(xs))
    ELSE PassingEntries(Tail(xs))

\* the entries were validated and process was called with valid_fhir_rows
RowsPassed == Called("process")

\* the number of rows process staged: the lines written and the vertices
\* collected
StagedCount ==
    LET RECURSIVE Lines(_)
        Lines(fs) == IF fs = <<>> THEN 0 ELSE Len(Head(fs).lines) + Lines(Tail(fs))
    IN  Lines(temp_files) + Len(delete_body)

\* C20: the rows passed to process are exactly the request entries for which
\* validate_entry returned no Issue, in submission order, each once; an entry
\* that got an Issue is not among them, and process stages each row once.
C20_RowsAreValidEntries ==
    RowsPassed =>
        /\ valid_fhir_rows = PassingEntries(request_entries)
        /\ \A i \in 1..Len(request_entries) :
              response_entries[i].status # "200" =>
                 ( Len(valid_fhir_rows) < Len(request_entries)
                   /\ ~Passes(request_entries[i]) )
        /\ pc \in { "p_delete", "p_close", "p_load", "p_index", "p_index_delete",
                    "p_index_load", "p_return", "done" }
              => StagedCount = Len(valid_fhir_rows)

\* a PUT whose id is not a UUID, submitted before a valid entry, was left out
C20_Witness ==
    /\ RowsPassed
    /\ pc = "done"
    /\ Len(request_entries) = 2
    /\ request_entries[1].request.method = "PUT"
    /\ ~IsNone(request_entries[1].resource)
    /\ Val(request_entries[1].resource).id = Some("1")
    /\ Passes(request_entries[2])
    /\ valid_fhir_rows = << request_entries[2] >>

\* the Location header names the response Bundle
LocationOfResponse ==
    headers.Location = Some(<<"https://aced-idp.org/Bundle/", Val(response).id>>)

\* C21 (as claimed): every response on a non-fatal path, whatever its status,
\* carries the Location https://aced-idp.org/Bundle/{id} of the response
\* Bundle, and a response on the fatal path carries no entries.
C21_LocationOnEveryNonFatal ==
    /\ NonFatalDone => LocationOfResponse
    /\ (pc = "done" /\ PreflightFatal) => IsNone(Val(response).entry)

\* C21 (amended): a response on a non-fatal path carries the Location of the
\* response Bundle when its status is 201 or 202 and no Location when it is
\* 422 or 500; a response on the fatal path carries no entries and no
\* Location.
C21_LocationOnCreatedOrAccepted ==
    /\ NonFatalDone =>
          /\ status_code \in { 201, 202, 422, 500 }
          /\ status_code \in { 201, 202 } => LocationOfResponse
          /\ status_code \in { 422, 500 } => IsNone(headers.Location)
    /\ (pc = "done" /\ PreflightFatal) =>
          /\ IsNone(Val(response).entry)
          /\ IsNone(headers.Location)

\* a partially valid bundle was accepted and its response is located
C21_Witness ==
    /\ NonFatalDone
    /\ status_code = 202
    /\ LocationOfResponse
    /\ Len(Val(Val(response).entry)) = 2

\* the Issue validate_entry returns for some entry of the request
IsEntryIssue(issue) ==
    \E i \in 1..Len(request_entries) :
        LET v == validate_entry(request_entries[i])
        IN  IsNone(v.raised) /\ v.value = Some(issue)

\* an issue of the bundle-level scope: one of preflight, or the one
\* put__bundle appends for the errors of the commit
IsBundleIssue(issue) ==
    issue.severity \in { "fatal", "success" }

\* the entries were validated on the non-fatal path
EntriesValidated ==
    /\ ~PreflightFatal
    /\ pc \in { "process", "p_delete", "p_close", "p_load", "p_index",
                "p_index_delete", "p_index_load", "p_return", "done" }

\* C22: once the entries are validated, no issue of the bundle-level Outcome
\* is an Issue of validate_entry, the Outcome of a response entry holds the
\* one Issue of validate_entry for that entry and no bundle-level issue, and
\* until the commit returns the bundle-level Outcome is the single success
\* issue of diagnostics "non fatal entry", however many entries are invalid.
C22_SeparateScopes ==
    EntriesValidated =>
        /\ \A i \in 1..Len(outcome) :
              IsBundleIssue(outcome[i]) /\ ~IsEntryIssue(outcome[i])
        /\ \A i \in 1..Len(response_entries) :
              ~IsNone(response_entries[i].outcome) =>
                 LET issues == Val(response_entries[i].outcome)
                 IN  /\ Len(issues) = 1
                     /\ \A j \in 1..Len(issues) :
                           ~IsBundleIssue(issues[j])
                           /\ Some(issues[j]) = validate_entry(request_entries[i]).value
        /\ pc # "done" =>
              outcome = << OperationOutcomeIssue("success", "success",
                                                 <<"non fatal entry">>) >>
        /\ (pc = "done" /\ server_errors = <<>>) =>
              outcome = << OperationOutcomeIssue("success", "success",
                                                 <<"non fatal entry">>) >>

\* every entry of the bundle was invalid and the request ended 422 with the
\* success issue alone at the bundle level
C22_Witness ==
    /\ EntriesValidated
    /\ pc = "done"
    /\ Len(request_entries) = 2
    /\ ValidCount(request_entries) = 0
    /\ status_code = 422
    /\ Len(outcome) = 1
    /\ outcome[1].diagnostics = <<"non fatal entry">>

\* the PUT rows of the resource type, in the order of rows
RECURSIVE PutRowsOf(_, _)
PutRowsOf(rows, resource_type) ==
    IF rows = <<>> THEN <<>>
    ELSE IF Head(rows).request.method = "PUT"
            /\ Val(Head(rows).resource).resource_type = resource_type
    THEN <<Val(Head(rows).resource)>> \o PutRowsOf(Tail(rows), resource_type)
    ELSE PutRowsOf(Tail(rows), resource_type)

\* the second url segment of every DELETE row, in the order of rows
RECURSIVE DeleteIdsOf(_)
DeleteIdsOf(rows) ==
    IF rows = <<>> THEN <<>>
    ELSE IF Head(rows).request.method = "DELETE"
    THEN << SubSeq(Head(rows).request.url, 3, Len(Head(rows).request.url)) >>
         \o DeleteIdsOf(Tail(rows))
    ELSE DeleteIdsOf(Tail(rows))

\* every row process received is staged once: one group per resource type,
\* each holding the PUT rows of its type in submission order, and one
\* deletion batch of the ids of the DELETE rows
RowsStagedOnce ==
    /\ \A i, j \in 1..Len(temp_files) :
          temp_files[i].name = temp_files[j].name => i = j
    /\ \A i \in 1..Len(temp_files) :
          \E t \in valid_resource_types :
             /\ temp_files[i].name = <<t, ".ndjson">>
             /\ temp_files[i].lines = PutRowsOf(valid_fhir_rows, t)
    /\ \A t \in valid_resource_types :
          PutRowsOf(valid_fhir_rows, t) # <<>> =>
             \E i \in 1..Len(temp_files) : temp_files[i].name = <<t, ".ndjson">>
    /\ delete_body = DeleteIdsOf(valid_fhir_rows)
    /\ \A i \in 1..Len(delete_body) : Len(delete_body[i]) >= 1

\* bulk delete was invoked iff there is something to delete, materialization
\* and bulk load iff a PUT row was staged
CallsFollowBatches ==
    /\ Called("bulk_delete") <=> delete_body # <<>>
    /\ (Called("jsonschemagraph") /\ Called("bulk_load")) <=> temp_files # <<>>
    /\ valid_fhir_rows = <<>> => (~Called("bulk_delete") /\ ~Called("bulk_load"))

\* C25, where process returns: every row was staged once and the calls of
\* bulk delete, materialization and bulk load follow the batches.
C25_StagedOnceWhenReturned ==
    (Called("process") /\ pc \in { "p_return", "done" }) =>
        (RowsStagedOnce /\ CallsFollowBatches)

\* C25 (as claimed): in every invocation of process that has ended, every row
\* received was staged exactly once, PUT rows in the group of their resource
\* type in submission order and DELETE rows by their id in the deletion
\* batch; bulk delete was invoked iff the batch is non-empty, materialization
\* and bulk load iff a PUT row was staged.
C25_StagedOnce == ProcessEnded => (RowsStagedOnce /\ CallsFollowBatches)

\* the position of the first call of that name among the calls, 0 when it
\* was not made
FirstCall(c) ==
    IF Called(c) THEN CHOOSE i \in 1..Len(calls) :
                         calls[i] = c /\ \A j \in 1..(i - 1) : calls[j] # c
    ELSE 0

\* when both calls were made, every call of the first name was made before
\* the first call of the second
Before(c, d) ==
    (Called(c) /\ Called(d)) =>
        \A i \in 1..Len(calls) : calls[i] = c => i < FirstCall(d)

\* C26: in every execution of process, the rows are staged before any
\* collaborator is called, bulk delete comes before materialization and bulk
\* load, every staging file that was opened is closed when materialization
\* is invoked, materialization comes before bulk load, and the project data
\* is read for the index rebuild after bulk delete and bulk load.
C26_StepOrder ==
    Called("process") =>
        /\ \A c \in { "bulk_delete", "jsonschemagraph", "bulk_load",
                      "get_project_data" } :
              Called(c) => (FirstCall("process") < FirstCall(c) /\ RowsStagedOnce)
        /\ Before("bulk_delete", "jsonschemagraph")
        /\ Before("bulk_delete", "bulk_load")
        /\ Before("jsonschemagraph", "bulk_load")
        /\ Called("bulk_load") => Called("jsonschemagraph")
        /\ Before("bulk_delete", "get_project_data")
        /\ Before("bulk_load", "get_project_data")
        /\ Called("jsonschemagraph") =>
              \A i \in 1..Len(temp_files) : ~temp_files[i].open
        /\ (Called("get_project_data") /\ temp_files # <<>>) => Called("bulk_load")
        /\ (Called("get_project_data") /\ delete_body # <<>>) => Called("bulk_delete")

\* a bundle with a PUT row and a DELETE row went through bulk delete,
\* materialization, bulk load and the read of the project data
C26_Witness ==
    /\ Called("bulk_delete")
    /\ Called("jsonschemagraph")
    /\ Called("bulk_load")
    /\ Called("get_project_data")
    /\ Len(temp_files) = 1
    /\ Len(delete_body) = 1

\* how many calls of that name were made
CountCalls(c) == Cardinality({ i \in 1..Len(calls) : calls[i] = c })

\* C27: in the index rebuild every load_flat comes after the three
\* meta_flat_delete, and when process returns after a call of the rebuild
\* threw, or with an index deleted and not reloaded, its error list is not
\* empty and the request ends 500.
C27_RebuildFailureIsReported ==
    Called("process") =>
        /\ Called("load_flat") =>
              ( CountCalls("meta_flat_delete") = 3
                /\ Before("meta_flat_delete", "load_flat") )
        /\ CountCalls("meta_flat_delete") <= 3 /\ CountCalls("load_flat") <= 3
        /\ pc \in { "p_return", "done" } =>
              /\ ( \/ Called("except")
                   \/ CountCalls("load_flat") < CountCalls("meta_flat_delete") )
                    => server_errors # <<>>
              /\ Called("except") => Len(server_errors) >= 2
              /\ (pc = "done" /\ server_errors # <<>>) => status_code = 500

\* the three index types were deleted, the second reload threw, and the
\* request ended 500
C27_Witness ==
    /\ pc = "done"
    /\ CountCalls("meta_flat_delete") = 3
    /\ CountCalls("load_flat") = 2
    /\ Called("except")
    /\ status_code = 500

\* C29, for a body whose entry field is a non-empty list: a response of
\* status 201 holds at least one entry and every entry in it is "200".
C29_CreatedHasEntriesForLists ==
    (pc = "done" /\ status_code = 201 /\ Val(body).entry = "list") =>
        LET sent == Val(Val(response).entry)
        IN  /\ Len(sent) >= 1
            /\ \A i \in 1..Len(sent) : sent[i].status = "200"

\* C29 (as claimed): every response of status 201 holds at least one entry
\* and every entry in it has status "200", whatever body passed preflight.
C29_CreatedHasEntries ==
    (pc = "done" /\ status_code = 201) =>
        /\ ~IsNone(Val(response).entry)
        /\ LET sent == Val(Val(response).entry)
           IN  /\ Len(sent) >= 1
               /\ \A i \in 1..Len(sent) : sent[i].status = "200"


(* ------------------------------- C24 --------------------------------- *)

\* the staging files the rows of request r make on their own, closed
OwnFiles(r) == CloseAll(StageRows(requests[r].rows, <<>>, <<>>, FALSE).value.temp_files)

\* the Location a request built from the id of its own response Bundle
OwnLocation(r) ==
    IsNone(requests[r].headers.Location)
    \/ requests[r].headers.Location
         = Some(<<"https://aced-idp.org/Bundle/", Val(requests[r].response).id>>)

\* the entries a call leaves in the error list when it fails
ErrorsOf(c) ==
    CASE c = "bulk_delete" -> { <<"bulk_delete failed">> }
      [] c = "bulk_load" -> { <<"bulk_load failed">> }
      [] OTHER -> { ExceptEntries(c)[1], ExceptEntries(c)[2] }

\* the commit errors of request r come from calls request r made
OwnErrors(r) ==
    LET q == requests[r]
    IN  \A i \in 1..Len(q.server_errors) :
          \E c \in CommitCalls :
             /\ \E j \in 1..Len(q.log) : q.log[j] = c
             /\ q.server_errors[i] \in ErrorsOf(c)

\* C24: in every interleaving of the requests each request's staging
\* directory is held by it alone, its bulk-load input is the files its own
\* rows staged, its bulk-delete input is the ids of its own DELETE rows, its
\* response entries are those of its own entries, its errors come from its own
\* calls, and its Location is built from its own response id, which no other
\* response carries.
C24_OwnedByRequest ==
    \A r \in Requests :
       LET q == requests[r]
       IN  /\ \A s \in Requests \ { r } :
                /\ ~IsNone(q.temp_dir) => q.temp_dir # requests[s].temp_dir
                /\ (~IsNone(q.response) /\ ~IsNone(requests[s].response)) =>
                       Val(q.response).id # Val(requests[s].response).id
                /\ ~IsNone(q.headers.Location) =>
                       q.headers.Location # requests[s].headers.Location
           /\ ~IsNone(q.temp_dir) => CloseAll(disk[Val(q.temp_dir)]) = OwnFiles(r)
           /\ ~IsNone(q.loaded) => Val(q.loaded) = OwnFiles(r)
           /\ ~IsNone(q.deleted) => Val(q.deleted) = DeleteIdsOf(q.rows)
           /\ (~IsNone(q.response) /\ ~IsNone(Val(q.response).entry)) =>
                  Val(Val(q.response).entry)
                    = validate_bundle_entries(Val(ProjectBody), q.entries)
                        .value.response_entries
           /\ OwnErrors(r)
           /\ OwnLocation(r)

\* both requests hold a staging directory at once, with different resources
\* staged, and both have called bulk_load
C24_Witness ==
    /\ requests[1].entries = <<SpecimenPut>>
    /\ requests[2].entries = <<SubjectPut>>
    /\ \A r \in Requests :
          /\ ~IsNone(requests[r].temp_dir)
          /\ ~IsNone(requests[r].loaded)
          /\ requests[r].pc = "p_index"


(* ------------------------------- C23 --------------------------------- *)

\* request r made the call c
Made(r, c) == \E i \in 1..Len(requests[r].log) : requests[r].log[i] = c

\* request r passed preflight
Admitted(r) == requests[r].pc # "start" /\ ~AnyFatal(requests[r].outcome)

\* request r submits again the bundle of a request that had been admitted and
\* had ended before r was received
Resubmission(r) ==
    /\ Admitted(r)
    /\ \E s \in requests[r].after :
          /\ requests[s].entries = requests[r].entries
          /\ requests[s].authorization = requests[r].authorization

\* the status of a request from its own entries and its own commit errors
StatusAlone(entries, errors) ==
    IF Len(errors) > 0 THEN 500
    ELSE IF ValidCount(entries) = Len(entries) THEN 201
    ELSE IF ValidCount(entries) = 0 THEN 422
    ELSE 202

\* C23: a request that submits again a bundle an earlier request had already
\* committed runs the commit path over again: it invokes bulk_delete when it
\* has DELETE rows and materialization and bulk_load when it has PUT rows, it
\* invokes the index rebuild, which runs to its end unless one of its calls
\* throws, it stops short only where a call of its own throws, and its status
\* follows from its own entries and its own commit errors alone.
C23_NoDeduplication ==
    \A r \in Requests :
       Resubmission(r) =>
          LET q == requests[r]
              dels == DeleteIdsOf(q.rows) # <<>>
              puts == \E i \in 1..Len(q.rows) : q.rows[i].request.method = "PUT"
              rebuilt == /\ Cardinality({ i \in 1..Len(q.log) :
                                             q.log[i] = "meta_flat_delete" }) = 3
                         /\ Cardinality({ i \in 1..Len(q.log) :
                                             q.log[i] = "load_flat" }) = 3
          IN  /\ q.pc \in { "p_load", "p_index", "p_index_delete", "p_index_load",
                            "p_return", "done" } =>
                     (dels <=> Made(r, "bulk_delete"))
              /\ q.pc \in { "p_index", "p_index_delete", "p_index_load",
                            "p_return", "done" } =>
                     (puts <=> (Made(r, "jsonschemagraph") /\ Made(r, "bulk_load")))
              /\ q.pc \in { "p_return", "done" } =>
                     /\ Made(r, "get_project_data")
                     /\ rebuilt \/ Made(r, "except")
              /\ q.pc = "crashed" =>
                     q.log[Len(q.log)] \in { "bulk_delete", "jsonschemagraph",
                                             "bulk_load" }
              /\ q.pc = "done" =>
                     q.status_code = StatusAlone(q.entries, q.server_errors)

\* the same Specimen is put twice, the second time after the first request
\* had answered 201; the second request loads it again, rebuilds the index
\* and answers 201 too
C23_Witness ==
    /\ requests[1].entries = <<SpecimenPut>>
    /\ requests[2].entries = <<SpecimenPut>>
    /\ requests[2].after = { 1 }
    /\ requests[1].pc = "done" /\ requests[1].status_code = 201
    /\ requests[2].pc = "done" /\ requests[2].status_code = 201
    /\ Made(2, "bulk_load")
    /\ Cardinality({ i \in 1..Len(requests[2].log) :
                        requests[2].log[i] = "load_flat" }) = 3
    /\ graph = { VertexOf(Val(SpecimenPut.resource)) }


(* ------------------------------- C28 --------------------------------- *)

\* request r ran process to its end and process returned no errors
ReturnedNoErrors(r) ==
    /\ requests[r].pc = "done"
    /\ Admitted(r)
    /\ requests[r].server_errors = <<>>

\* some steps of the two runs of process were interleaved
RanConcurrently == \A r \in Requests : requests[r].after = {}

\* C28 (as claimed): when the requests run process concurrently and all
\* return no errors, then once all have finished every index holds the
\* flattening of the project data the graph store then holds.
C28_IndexFollowsGraph ==
    ((\A r \in Requests : ReturnedNoErrors(r)) /\ RanConcurrently) =>
        \A i \in IndexNames : elastic[i] = Flatten(graph, i)

====
